---- MODULE Spec2Model ----
(***************************************************************************)
(* GoBalance: an HTTP reverse proxy / load balancer.                       *)
(*                                                                         *)
(* The module models the request-routing engine: the circuit breaker      *)
(* (internal/health), the backend and the pool (internal/backend), the     *)
(* health trackers, the strategies and the Balancer's ServeHTTP loop.      *)
(* Each component has its own specification over the shared variables:     *)
(*   SpecCB       one circuit breaker driven by a clock                    *)
(*   SpecBackend  the Backend methods called on one backend                *)
(*   SpecStrategy the pool under reloads and health changes, and the three *)
(*                strategies selecting from it                             *)
(*   SpecHealth   the prober's and the passive tracker's handlers, method  *)
(*                call by method call, beside ReplaceBackends and the      *)
(*                pool's readers                                           *)
(*   SpecHandlers two such handlers at the same time on one backend        *)
(*   SpecProbe    the prober's loop, one probe at a time from client.Get   *)
(*                to the handler's last line, and the cancellation of the  *)
(*                prober's context                                         *)
(*   SpecRouter   Balancer.ServeHTTP for concurrent requests, with         *)
(*                retries, cancellations and reloads                       *)
(*   SpecBypass   the same, started with the first backend's circuit OPEN  *)
(*   SpecAttempts the same, under each configured retry.max_attempts       *)
(*   SpecStatus   the same without reloads and cancellations, over more    *)
(*                upstream statuses, from pools whose backends have failed *)
(*                requests before                                          *)
(*   SpecBody     what ServeHTTP does with the request body, attempt after *)
(*                attempt                                                  *)
(*   SpecExport   the metrics exporter setting the gauges while backends   *)
(*                change state and load and retries take tokens            *)
(*   SpecHeal     probes and request results applied to the backends of a  *)
(*                pool, each handler run without interruption              *)
(*   SpecBreakers two goroutines inside Balancer.getCircuitBreaker, with   *)
(*                reloads of the pool in between                           *)
(*   SpecTokens   the goroutines of SpecRefill on a budget that is down to *)
(*                its last token                                           *)
(*   SpecTerm     one ServeHTTP call from start to end (SpecTermFair: with *)
(*                the handler's goroutine scheduled)                       *)
(*   SpecLive     the prober's goroutine for one backend of a pool of two  *)
(*                and a request handler reporting to the passive tracker   *)
(*                (SpecLiveFair: with the ticker firing and the goroutines *)
(*                scheduled)                                               *)
(*   SpecRetry    Policy.ShouldRetry called with each method, error and    *)
(*                attempt number, on a small budget                        *)
(*   SpecBudget   a Budget under a steady rate of TrackRequest calls, with *)
(*                TryConsume and GetAvailable as single steps              *)
(*   SpecRefill   two goroutines inside TryConsume and GetAvailable, one   *)
(*                memory operation at a time                               *)
(*   SpecRR       two goroutines inside RoundRobinStrategy.SelectBackend   *)
(*                over a pool whose healthy subset stays as it is          *)
(*   SpecWRR      the smooth weighted strategy selecting again and again   *)
(*                from a healthy pool with fixed weights                   *)
(*   SpecLC       the least-connections strategy over three backends under *)
(*                changing loads and health states                         *)
(***************************************************************************)
EXTENDS Integers, Sequences, FiniteSets, TLC

VARIABLES
    now,        \* the wall clock, in seconds (time.Now())
    cbs,        \* Balancer.circuitBreakers: backend host -> CircuitBreaker
    cbRet,      \* the value the last AllowRequest call returned
    failLog,    \* every time at which RecordFailure was called, in call order
    hoSucc,     \* the RecordSuccess calls made while the breaker was
                \* HALF_OPEN, since it last entered HALF_OPEN
    inst,       \* the Backend objects created so far, by creation order
    pool,       \* Pool.backends: a sequence of indices into inst
    strategy,   \* the configured strategy: "rr", "lc" or "wrr"
    rrCounter,  \* RoundRobinStrategy.counter
    wrr,        \* WeightedRoundRobinStrategy.weightedBackends: URL -> entry
    sel,        \* the backend the last SelectBackend call returned (0: nil)
    hw,         \* the goroutines running a health handler: where each is,
                \* the pool snapshot it took, its backend, the values read
    rl,         \* the ReplaceBackends call in progress: where it is, the
                \* new list, the index of the backend being filled in
    installed,  \* the list the pool was last given: the one it was built
                \* with, then the argument of the last ReplaceBackends call
                \* that has returned
    req,        \* the client requests: where ServeHTTP is for each, its
                \* locals, what the upstreams answered, what was written
                \* to the client, the calls made on the active counts
    retryPolicy, \* the retry Policy: its attempt limit and its Budget
    retriesTotal, \* the retries_total counter, by reason
    call,       \* the request, error and attempt number Policy.ShouldRetry
                \* is called with, whether it has been called, the value
                \* the last call returned
    bg,         \* the goroutines inside Budget.TryConsume and GetAvailable:
                \* where each is and the locals it holds, and the number
                \* of calls made
    picks,      \* the selections a strategy has returned: in SpecRR the
                \* counter value and the backend of each call that returned
    callers,    \* the goroutines inside a strategy's SelectBackend: where
                \* each is, the healthy subset it read, the count it drew
    body,       \* the body of the request ServeHTTP is serving: the bytes
                \* the client sent, r.Body, bodyBytes, the attempt number,
                \* the body each forwarded attempt was given
    gauges,     \* the Collector's gauges as last set: backend_state and
                \* backend_connections by backend label, retry_budget_tokens
    probed,     \* by Backend object, the successful active checks of it
                \* completed since the last failure recorded against it
    getters,    \* the goroutines inside Balancer.getCircuitBreaker: where
                \* each is and what it holds, who holds cbMux, the breaker
                \* instance each key maps to, the instances made
    prober,     \* the ActiveChecker: whether its context is cancelled,
                \* whether Start has returned, what client.Get returned to
                \* the last probe
    tally       \* what has been asked of the Budget: in SpecBudget the
                \* TrackRequest calls and the tokens granted; in SpecRefill
                \* the refills claimed, by whom, what was done for each

cbVars == <<cbs, cbRet, failLog, hoSucc>>
poolVars == <<inst, pool>>
stratVars == <<strategy, rrCounter, wrr, sel>>
healthVars == <<hw, rl, installed>>
routerVars == <<req, retryPolicy, retriesTotal>>
retryVars == <<call, bg, tally>>
obsVars == <<picks, callers, prober, body, gauges, probed, getters>>
vars == <<now, cbVars, poolVars, stratVars, healthVars, routerVars, retryVars,
          obsVars>>

\* ------------------------------------------------------------------ bounds
MaxTime == 40          \* the clock stops here
MaxFailures == 6       \* RecordFailure calls in a breaker's run
MaxSuccesses == 2      \* cap of CircuitBreaker.successes
MaxCount == 3          \* cap of a backend's consecutive-result counters
MaxInst == 4           \* Backend objects created in a run (reloads add some)
MaxSelections == 3     \* SelectBackend calls in a run
MaxActive == 1         \* cap of a backend's active-request count
MaxHealthInst == 3     \* Backend objects created in a run beside the handlers
MaxRouterInst == 3     \* Backend objects created in a run beside the requests
MaxAttempt == 3        \* the attempt numbers ShouldRetry is called with
MaxTracked == 12       \* cap of Budget.requestCounter within one second
MaxRetryTime == 2      \* the clock stops here in SpecRetry
MaxBudgetTime == 10    \* the clock stops here in SpecBudget
MaxGranted == 11       \* cap of the tokens granted that are counted
MaxRate == 2           \* cap of the TrackRequest calls within one second
MaxRefillTime == 2     \* the clock stops here in SpecRefill
MaxCounter == 1        \* cap of Budget.requestCounter in SpecRefill
MaxCalls == 3          \* calls of TryConsume and GetAvailable in SpecRefill
MaxPicks == 6          \* selections drawn in SpecRR
MaxWeighted == 12      \* selections made in SpecWRR
MaxBody == 2           \* bytes in a request body in SpecBody

\* the clock advances by one of these steps
ClockSteps == {5, 10, 30}

\* ------------------------------------------------------- circuit breaker
CBFailureThreshold == 5
CBSuccessThreshold == 2
CBTimeout == 30
CBWindowSize == 10

\* time.Time{}: further in the past than any duration the breaker compares
ZeroTime == 0 - (CBTimeout + CBWindowSize)

NewCircuitBreaker ==
    [state |-> "CLOSED", successes |-> 0, lastFailTime |-> ZeroTime,
     recentFailures |-> <<>>]

\* a plausible slip: a failure exactly windowSize old still counts
InWindowInclusive(t, tnow) == t >= tnow - CBWindowSize

\* t.After(cutoff) with cutoff = now - windowSize
InWindow(t, tnow) == t > tnow - CBWindowSize

cleanOldFailures(fs, tnow) == SelectSeq(fs, LAMBDA t : InWindow(t, tnow))

\* a plausible slip: the cooldown must be exceeded, not reached
CooldownExceeded(c, tnow) == tnow - c.lastFailTime > CBTimeout

\* time.Since(cb.lastFailTime) >= cb.timeout
CooldownElapsed(c, tnow) == tnow - c.lastFailTime >= CBTimeout

\* a plausible slip: the success count is not reset on entering HALF_OPEN
AllowRequestKeepCount(c, tnow) ==
    CASE c.state = "CLOSED" -> [cb |-> c, ok |-> TRUE]
      [] c.state = "OPEN" ->
            IF CooldownElapsed(c, tnow)
            THEN [cb |-> [c EXCEPT !.state = "HALF_OPEN"], ok |-> TRUE]
            ELSE [cb |-> c, ok |-> FALSE]
      [] c.state = "HALF_OPEN" -> [cb |-> c, ok |-> TRUE]

\* a plausible slip: a refusal is booked as one more failure, which restarts
\* the cooldown
AllowRequestCountingRefusal(c, tnow) ==
    CASE c.state = "CLOSED" -> [cb |-> c, ok |-> TRUE]
      [] c.state = "OPEN" ->
            IF CooldownElapsed(c, tnow)
            THEN [cb |-> [c EXCEPT !.state = "HALF_OPEN", !.successes = 0],
                  ok |-> TRUE]
            ELSE [cb |-> [c EXCEPT !.recentFailures = Append(@, tnow),
                                   !.lastFailTime = tnow],
                  ok |-> FALSE]
      [] c.state = "HALF_OPEN" -> [cb |-> c, ok |-> TRUE]

\* AllowRequest: the breaker after the call, and the value returned
AllowRequest(c, tnow) ==
    CASE c.state = "CLOSED" -> [cb |-> c, ok |-> TRUE]
      [] c.state = "OPEN" ->
            IF CooldownElapsed(c, tnow)
            THEN [cb |-> [c EXCEPT !.state = "HALF_OPEN", !.successes = 0],
                  ok |-> TRUE]
            ELSE [cb |-> c, ok |-> FALSE]
      [] c.state = "HALF_OPEN" -> [cb |-> c, ok |-> TRUE]

RecordSuccess(c, tnow) ==
    LET c1 == [c EXCEPT !.successes = @ + 1] IN
    IF c1.state = "HALF_OPEN"
    THEN IF c1.successes >= CBSuccessThreshold
         THEN [c1 EXCEPT !.state = "CLOSED", !.recentFailures = <<>>,
                         !.successes = 0]
         ELSE c1
    ELSE IF c1.state = "CLOSED"
         THEN [c1 EXCEPT !.recentFailures = cleanOldFailures(@, tnow)]
         ELSE c1

\* the CLOSED -> OPEN test of RecordFailure
ThresholdReached(fs) == Len(fs) >= CBFailureThreshold

RecordFailure(c, tnow) ==
    LET c1 == [c EXCEPT !.recentFailures =
                            cleanOldFailures(Append(@, tnow), tnow),
                        !.lastFailTime = tnow] IN
    IF c1.state = "HALF_OPEN"
    THEN [c1 EXCEPT !.state = "OPEN", !.successes = 0]
    ELSE IF c1.state = "CLOSED" /\ ThresholdReached(c1.recentFailures)
         THEN [c1 EXCEPT !.state = "OPEN"]
         ELSE c1

CBIdle == cbs = << >> /\ cbRet = TRUE /\ failLog = <<>> /\ hoSucc = 0

\* ---------------------------------------------------------------- backend
HealthStates == {"HEALTHY", "UNHEALTHY", "DRAINING", "DOWN"}

\* HealthMetrics carries three timestamps too; nothing reads them
NewBackend(k) ==
    [key |-> k, alive |-> TRUE, state |-> "HEALTHY", succ |-> 0, fail |-> 0,
     active |-> 0, weight |-> 1]

IsAlive(b) == b.alive

SetAlive(b, v) == [b EXCEPT !.alive = v]

GetState(b) == b.state

SetState(b, s) == [b EXCEPT !.state = s, !.alive = (s = "HEALTHY")]

\* a plausible slip: the counter itself heals the backend at the threshold
RecordSuccessAndHeal(b) ==
    [b EXCEPT !.succ = @ + 1, !.fail = 0,
              !.state = IF b.succ + 1 >= 2 THEN "HEALTHY" ELSE @,
              !.alive = IF b.succ + 1 >= 2 THEN TRUE ELSE @]

RecordHealthCheckSuccess(b) == [b EXCEPT !.succ = @ + 1, !.fail = 0]

\* a plausible slip: a failure leaves the success counter as it was
RecordFailureKeepSuccesses(b) == [b EXCEPT !.fail = @ + 1]

RecordHealthCheckFailure(b) == [b EXCEPT !.fail = @ + 1, !.succ = 0]

GetHealthMetrics(b) == [succ |-> b.succ, fail |-> b.fail]

\* called by Pool.ReplaceBackends; its body is not among the sources
CopyHealthMetrics(b, m) == [b EXCEPT !.succ = m.succ, !.fail = m.fail]

\* a plausible slip: the increment is left out
SkipIncrement(b) == b

IncrementActiveRequests(b) == [b EXCEPT !.active = @ + 1]

DecrementActiveRequests(b) == [b EXCEPT !.active = @ - 1]

GetActiveRequests(b) == b.active

SetWeight(b, w) ==
    [b EXCEPT !.weight = IF w < 1 THEN 1 ELSE IF w > 100 THEN 100 ELSE w]

\* weights a configuration may give, the out-of-range ones included
Weights == {0, 1, 2, 100, 200}

PoolIdle == inst = <<>> /\ pool = <<>>

\* ------------------------------------------------------------------- pool
Range(f) == {f[i] : i \in DOMAIN f}

GetBackends == pool

GetHealthyBackends == SelectSeq(pool, LAMBDA i : IsAlive(inst[i]))

\* the configured backend lists: URL and weight of each entry
Cfg(k, w) == [key |-> k, weight |-> w]
Configs ==
    { <<Cfg("a", 1), Cfg("b", 2)>>,
      <<Cfg("a", 2), Cfg("c", 1)>>,
      <<Cfg("b", 1)>> }

\* main.go: one new Backend per configured entry, with its weight set
BackendsOf(cfg) ==
    [j \in 1..Len(cfg) |-> SetWeight(NewBackend(cfg[j].key), cfg[j].weight)]

\* oldBackendMap[url]: the last backend of the current list with that URL
\* (0 when there is none)
OldBackend(k) ==
    LET is == {i \in 1..Len(pool) : inst[pool[i]].key = k} IN
    IF is = {} THEN 0
    ELSE pool[CHOOSE i \in is : \A j \in is : j <= i]

\* the state a new backend gets from the old backend of its URL
PreserveFrom(nb, ob) ==
    CopyHealthMetrics(SetState(SetAlive(nb, IsAlive(ob)), GetState(ob)),
                      GetHealthMetrics(ob))

\* a plausible slip: the new list is appended to the old one
InstallAppended(ids) == pool \o ids

\* p.backends = newBackends
Install(ids) == ids

\* ReplaceBackends as one step (it holds the pool's write lock throughout):
\* the new Backend objects are inst[n+1..n+Len(cfg)]
ReplaceBackends(cfg) ==
    LET n == Len(inst)
        fresh == BackendsOf(cfg)
        kept == [j \in 1..Len(cfg) |->
                    IF OldBackend(fresh[j].key) # 0
                    THEN PreserveFrom(fresh[j], inst[OldBackend(fresh[j].key)])
                    ELSE fresh[j]]
    IN /\ inst' = inst \o kept
       /\ pool' = Install([j \in 1..Len(cfg) |-> n + j])

\* ------------------------------------------------------------- strategies
Strategies == {"rr", "lc", "wrr"}

\* a plausible slip: the index taken from the count itself, so that the
\* first selection is the second backend
RRIndexFromCount(count, n) == (count % n) + 1

\* RoundRobinStrategy.SelectBackend on the healthy subset hs
RRIndex(count, n) == ((count - 1) % n) + 1

\* LeastConnectionsStrategy.SelectBackend, the loop from position i on:
\* selected (0: nil) and minConnections as the iterations before i left
\* them. minConnections starts at math.MaxInt64, which every count is
\* below: that start is told by selected being nil.
RECURSIVE LCScan(_, _, _, _)
LCScan(hs, i, selected, minConnections) ==
    IF i > Len(hs) THEN selected
    ELSE LET connections == GetActiveRequests(inst[hs[i]]) IN
         IF selected = 0 \/ connections < minConnections
         THEN LCScan(hs, i + 1, hs[i], connections)
         ELSE LCScan(hs, i + 1, selected, minConnections)

\* a plausible slip: the counts are not looked at
LCSelectFirst(hs) == hs[1]

LCSelect(hs) == LCScan(hs, 1, 0, 0)

\* WeightedRoundRobinStrategy.SelectBackend, first two loops: an entry for
\* every URL of hs (a new one starts at currentWeight 0 and points at the
\* backend seen now; an existing one only has its weight updated), and no
\* entry for a URL that is not in hs
WRRReconcile(w, hs) ==
    LET keys == {inst[i].key : i \in Range(hs)}
        \* the loop runs over hs in order: for a URL the last backend's
        \* weight stays; a new entry keeps the first backend seen
        firstOf(k) == hs[CHOOSE i \in 1..Len(hs) :
                          /\ inst[hs[i]].key = k
                          /\ \A j \in 1..(i - 1) : inst[hs[j]].key # k]
        lastOf(k) == hs[CHOOSE i \in 1..Len(hs) :
                          /\ inst[hs[i]].key = k
                          /\ \A j \in (i + 1)..Len(hs) : inst[hs[j]].key # k]
    IN [k \in keys |->
          IF k \in DOMAIN w
          THEN [w[k] EXCEPT !.weight = inst[lastOf(k)].weight]
          ELSE [backend |-> firstOf(k), weight |-> inst[lastOf(k)].weight,
                currentWeight |-> 0]]

\* third loop: every currentWeight grows by its weight
WRRAdvance(w) ==
    [k \in DOMAIN w |-> [w[k] EXCEPT !.currentWeight = @ + w[k].weight]]

\* a plausible slip: the selected entry is not set back by the total
WRRNoTotal(w) == 0

WRRTotal(w) ==
    LET RECURSIVE sum(_)
        sum(ks) == IF ks = {} THEN 0
                   ELSE LET k == CHOOSE x \in ks : TRUE
                        IN w[k].weight + sum(ks \ {k})
    IN sum(DOMAIN w)

\* the entries the loop can end on: it keeps the first entry it meets that
\* has the largest currentWeight, and a Go map is ranged over in any order
WRRCandidates(w) ==
    {k \in DOMAIN w : \A k2 \in DOMAIN w :
                          w[k2].currentWeight <= w[k].currentWeight}

SelectIdle ==
    /\ strategy = "rr" /\ rrCounter = 0 /\ wrr = << >>
    /\ sel = 0

\* Strategy.SelectBackend(pool): reads the healthy subset, returns a backend
SelectBackend ==
    LET hs == GetHealthyBackends
        Return(b) == sel' = b
    IN
    IF hs = <<>>
    THEN /\ Return(0)
         /\ UNCHANGED <<rrCounter, wrr>>
    ELSE CASE strategy = "rr" ->
                /\ rrCounter' = rrCounter + 1
                /\ Return(hs[RRIndex(rrCounter', Len(hs))])
                /\ UNCHANGED wrr
           [] strategy = "lc" ->
                /\ Return(LCSelect(hs))
                /\ UNCHANGED <<rrCounter, wrr>>
           [] strategy = "wrr" ->
                LET w1 == WRRAdvance(WRRReconcile(wrr, hs)) IN
                \E k \in WRRCandidates(w1) :
                    /\ wrr' = [w1 EXCEPT ![k].currentWeight =
                                             @ - WRRTotal(w1)]
                    /\ Return(w1[k].backend)
                    /\ UNCHANGED rrCounter

\* ------------------------------------------------------- health handlers
HealthyThreshold == 2
UnhealthyThreshold == 3
PassiveThreshold == 3

\* the goroutines that run a handler at the same time
Workers == {1}

\* the handler a goroutine runs: ActiveChecker.handleSuccess / handleFailure
\* after a probe, PassiveTracker.RecordSuccess / RecordFailure after a request
Kinds == {"probeOK", "probeFail", "passOK", "passFail"}

IdleWorker == [pc |-> "idle", kind |-> "probeOK", snap |-> <<>>, b |-> 0,
               m |-> [succ |-> 0, fail |-> 0], st |-> "HEALTHY"]

IdleReload == [pc |-> "idle", new |-> <<>>, j |-> 0]

HealthIdle ==
    /\ hw = [w \in Workers |-> IdleWorker]
    /\ rl = IdleReload
    /\ installed = <<>>

\* ReplaceBackends holds the pool's write lock from its first line to its
\* return; GetBackends and GetHealthyBackends take the read lock
PoolWriteLocked == rl.pc # "idle"

\* checkBackend: the handler the outcome of client.Get goes to
ProbeKind(err, status) ==
    IF err THEN "probeFail"
    ELSE IF status >= 200 /\ status < 300 THEN "probeOK" ELSE "probeFail"

\* a plausible slip: the counters have to pass the thresholds
DecisionPastThreshold(kind, m, st) ==
    CASE kind = "probeOK" ->
            IF st # "HEALTHY" /\ m.succ > HealthyThreshold
            THEN "HEALTHY" ELSE ""
      [] kind = "probeFail" ->
            IF st = "HEALTHY" /\ m.fail > UnhealthyThreshold
            THEN "UNHEALTHY" ELSE ""
      [] kind = "passFail" ->
            IF st = "HEALTHY" /\ m.fail > PassiveThreshold
            THEN "UNHEALTHY" ELSE ""
      [] kind = "passOK" -> ""

\* a plausible slip: a successful probe only brings back a DOWN backend
DecisionFromDown(kind, m, st) ==
    CASE kind = "probeOK" ->
            IF st = "DOWN" /\ m.succ >= HealthyThreshold
            THEN "HEALTHY" ELSE ""
      [] kind = "probeFail" ->
            IF st = "HEALTHY" /\ m.fail >= UnhealthyThreshold
            THEN "UNHEALTHY" ELSE ""
      [] kind = "passFail" ->
            IF st = "HEALTHY" /\ m.fail >= PassiveThreshold
            THEN "UNHEALTHY" ELSE ""
      [] kind = "passOK" -> ""

\* the state the handler decides to set, or "" to leave the state alone
Decision(kind, m, st) ==
    CASE kind = "probeOK" ->
            IF st # "HEALTHY" /\ m.succ >= HealthyThreshold
            THEN "HEALTHY" ELSE ""
      [] kind = "probeFail" ->
            IF st = "HEALTHY" /\ m.fail >= UnhealthyThreshold
            THEN "UNHEALTHY" ELSE ""
      [] kind = "passFail" ->
            IF st = "HEALTHY" /\ m.fail >= PassiveThreshold
            THEN "UNHEALTHY" ELSE ""
      [] kind = "passOK" -> ""

\* PassiveTracker.RecordSuccess / RecordFailure, run without interruption
PassiveRecordSuccess(b) ==
    IF GetHealthMetrics(b).fail > 0 THEN RecordHealthCheckSuccess(b) ELSE b

PassiveRecordFailure(b) ==
    LET b1 == RecordHealthCheckFailure(b)
        s == Decision("passFail", GetHealthMetrics(b1), GetState(b1)) IN
    IF s # "" THEN SetState(b1, s) ELSE b1

\* ----------------------------------------------------------- retry policy
\* NewBudget(percent), created at time tnow (Unix seconds)
NewBudget(percent, tnow) ==
    LET pc == IF percent < 1 THEN 1 ELSE IF percent > 100 THEN 100
              ELSE percent
        maxTokens == (1000 * pc) \div 100 IN
    [tokens |-> maxTokens, maxTokens |-> maxTokens, percent |-> pc,
     refillRate |-> maxTokens, lastRefill |-> tnow, requestCounter |-> 0]

TrackRequest(bd) == [bd EXCEPT !.requestCounter = @ + 1]

refill(bd, tnow) ==
    IF tnow <= bd.lastRefill THEN bd
    ELSE LET actualRate == bd.requestCounter
             share == (actualRate * bd.percent) \div 100
             rate == IF actualRate > 0
                     THEN (IF share < 1 THEN 1 ELSE share)
                     ELSE bd.refillRate
             maxTokens == IF actualRate > 0 /\ share > 0
                          THEN share ELSE bd.maxTokens
             newTokens == bd.tokens + (tnow - bd.lastRefill) * rate
         IN [bd EXCEPT !.lastRefill = tnow, !.requestCounter = 0,
                       !.refillRate = rate, !.maxTokens = maxTokens,
                       !.tokens = IF newTokens > maxTokens
                                  THEN maxTokens ELSE newTokens]

TryConsume(bd, tnow) ==
    LET r == refill(bd, tnow) IN
    IF r.tokens <= 0 THEN [budget |-> r, ok |-> FALSE]
    ELSE [budget |-> [r EXCEPT !.tokens = @ - 1], ok |-> TRUE]

NewPolicy(maxAttempts, budgetPercent, tnow) ==
    [maxAttempts |-> maxAttempts, budget |-> NewBudget(budgetPercent, tnow)]

isIdempotent(method) == method \in {"GET", "HEAD", "OPTIONS", "PUT", "DELETE"}

\* an error is its message, a sequence of characters; NilError is no error
NilError == <<"nil">>

\* strings.ToLower, a character at a time
UpperCase == <<"A", "B", "C", "D", "E", "F", "G", "H", "I", "J", "K", "L", "M",
               "N", "O", "P", "Q", "R", "S", "T", "U", "V", "W", "X", "Y", "Z">>
LowerCase == <<"a", "b", "c", "d", "e", "f", "g", "h", "i", "j", "k", "l", "m",
               "n", "o", "p", "q", "r", "s", "t", "u", "v", "w", "x", "y", "z">>
Digits == <<"0", "1", "2", "3", "4", "5", "6", "7", "8", "9">>
Characters ==
    Range(UpperCase) \cup Range(LowerCase) \cup Range(Digits)
       \cup {" ", ":", "/"}
LowerOf ==
    [c \in Characters |->
        IF \E k \in 1..Len(UpperCase) : UpperCase[k] = c
        THEN LowerCase[CHOOSE k \in 1..Len(UpperCase) : UpperCase[k] = c]
        ELSE c]
ToLower(str) == [i \in 1..Len(str) |-> LowerOf[str[i]]]

\* strings.Contains
Contains(str, substr) ==
    \E i \in 0..(Len(str) - Len(substr)) :
        SubSeq(str, i + 1, i + Len(substr)) = substr

\* strconv.Itoa of a status code, and fmt.Errorf("status %d", code)
RECURSIVE Itoa(_)
Itoa(n) == IF n < 10 THEN <<Digits[n + 1]>>
           ELSE Append(Itoa(n \div 10), Digits[(n % 10) + 1])
StatusError(code) == <<"s", "t", "a", "t", "u", "s", " ">> \o Itoa(code)

\* the entries of retryableErrors, in order
retryableErrors ==
    << <<"c", "o", "n", "n", "e", "c", "t", "i", "o", "n", " ", "r", "e",
         "f", "u", "s", "e", "d">>,
       <<"c", "o", "n", "n", "e", "c", "t", "i", "o", "n", " ", "r", "e",
         "s", "e", "t">>,
       <<"b", "r", "o", "k", "e", "n", " ", "p", "i", "p", "e">>,
       <<"n", "o", " ", "r", "o", "u", "t", "e", " ", "t", "o", " ", "h",
         "o", "s", "t">>,
       <<"i", "/", "o", " ", "t", "i", "m", "e", "o", "u", "t">>,
       <<"E", "O", "F">>,
       <<"d", "e", "a", "d", "l", "i", "n", "e", " ", "e", "x", "c", "e",
         "e", "d", "e", "d">>,
       <<"s", "t", "a", "t", "u", "s", " ", "5">> >>

\* the test of the loop of isRetryableError: the message is lower-cased, the
\* pattern is not
MatchesPattern(str, pattern) == Contains(ToLower(str), pattern)

isRetryableError(err) ==
    IF err = NilError THEN FALSE
    ELSE \E k \in 1..Len(retryableErrors) :
            MatchesPattern(err, retryableErrors[k])

\* the answer of ShouldRetry that skips the method check
ShouldRetryAnyMethod(p, method, cancelled, err, attempt, tnow) ==
    IF \/ cancelled
       \/ attempt >= p.maxAttempts
       \/ err = NilError
       \/ ~isRetryableError(err)
    THEN [policy |-> p, ok |-> FALSE]
    ELSE LET c == TryConsume(TrackRequest(p.budget), tnow) IN
         [policy |-> [p EXCEPT !.budget = c.budget], ok |-> c.ok]

\* Policy.ShouldRetry: the policy after the call and the answer
ShouldRetry(p, method, cancelled, err, attempt, tnow) ==
    IF \/ cancelled
       \/ attempt >= p.maxAttempts
       \/ ~isIdempotent(method)
       \/ err = NilError
       \/ ~isRetryableError(err)
    THEN [policy |-> p, ok |-> FALSE]
    ELSE LET c == TryConsume(TrackRequest(p.budget), tnow) IN
         [policy |-> [p EXCEPT !.budget = c.budget], ok |-> c.ok]

\* error messages as the net, io, context and tls packages word them
ErrorMessages ==
    [ refused |->
          <<"d", "i", "a", "l", " ", "t", "c", "p", ":", " ", "c", "o",
            "n", "n", "e", "c", "t", ":", " ", "c", "o", "n", "n", "e",
            "c", "t", "i", "o", "n", " ", "r", "e", "f", "u", "s", "e",
            "d">>,
      reset |->
          <<"r", "e", "a", "d", ":", " ", "c", "o", "n", "n", "e", "c",
            "t", "i", "o", "n", " ", "r", "e", "s", "e", "t", " ", "b",
            "y", " ", "p", "e", "e", "r">>,
      pipe |->
          <<"w", "r", "i", "t", "e", ":", " ", "b", "r", "o", "k", "e",
            "n", " ", "p", "i", "p", "e">>,
      noRoute |->
          <<"c", "o", "n", "n", "e", "c", "t", ":", " ", "n", "o", " ",
            "r", "o", "u", "t", "e", " ", "t", "o", " ", "h", "o", "s",
            "t">>,
      timeout |->
          <<"d", "i", "a", "l", " ", "t", "c", "p", ":", " ", "i", "/",
            "o", " ", "t", "i", "m", "e", "o", "u", "t">>,
      eof |->
          <<"E", "O", "F">>,
      unexpectedEOF |->
          <<"u", "n", "e", "x", "p", "e", "c", "t", "e", "d", " ", "E",
            "O", "F">>,
      deadline |->
          <<"c", "o", "n", "t", "e", "x", "t", " ", "d", "e", "a", "d",
            "l", "i", "n", "e", " ", "e", "x", "c", "e", "e", "d", "e",
            "d">>,
      canceled |->
          <<"c", "o", "n", "t", "e", "x", "t", " ", "c", "a", "n", "c",
            "e", "l", "e", "d">>,
      tls |->
          <<"t", "l", "s", ":", " ", "b", "a", "d", " ", "c", "e", "r",
            "t", "i", "f", "i", "c", "a", "t", "e">> ]

\* ----------------------------------------------------------------- router
\* the requests in a run, the methods they come with, the status codes an
\* upstream answers with
Reqs == {1, 2}
ReqMethod == <<"GET", "POST">>
Statuses == {200, 503}

\* retry.NewPolicy(2, 25)
PolicyMaxAttempts == 2
BudgetPercent == 25

\* maxAttempts of ServeHTTP
ServeMaxAttempts == 3

NewRequest(m) ==
    [pc |-> "new", method |-> m, cancelled |-> FALSE, attempt |-> 0,
     b |-> 0, statusCode |-> 0, up |-> <<>>, wrote |-> <<>>,
     incs |-> 0, decs |-> 0]

RouterIdle ==
    /\ req = << >>
    /\ retryPolicy = NewPolicy(PolicyMaxAttempts, BudgetPercent, 0)
    /\ retriesTotal = [circuit_open |-> 0, server_error |-> 0]

\* no ShouldRetry call has been made, no goroutine is inside the Budget
NoCall == [method |-> "", err |-> NilError, attempt |-> 0, cancelled |-> FALSE,
           made |-> FALSE, ok |-> FALSE]

RetryIdle == call = NoCall /\ bg = << >> /\ tally = << >>

\* no selection has been observed, no goroutine is inside SelectBackend,
\* the prober runs, no probe having returned, and no request body is held
NoProber == [cancelled |-> FALSE, stopped |-> FALSE, err |-> FALSE,
             status |-> 0]

\* no series of a gauge vector exists before its first Set
NoGauges == [state |-> [k \in {} |-> 0], connections |-> [k \in {} |-> 0],
             tokens |-> 0]

ObsIdle ==
    /\ picks = << >> /\ callers = << >> /\ prober = NoProber
    /\ body = << >> /\ gauges = NoGauges /\ probed = << >> /\ getters = << >>

\* w.WriteHeader(code) on the client's writer, by a backend's proxy (through
\* captureResponseWriter.WriteHeader) or by the router's http.Error
WriteHeader(q, by, code) ==
    [q EXCEPT !.wrote = Append(@, [by |-> by, code |-> code])]

\* ServeHTTP returns or is unwound: its locals are gone
Finish(q, pc) == [q EXCEPT !.pc = pc, !.attempt = 0, !.b = 0, !.statusCode = 0]

\* the status the client observes: the first header written stands
ClientStatus(q) == IF q.wrote = <<>> THEN 0 ELSE q.wrote[1].code

Finished(q) == q.pc \in {"done", "panicked"}

\* ---------- SpecStrategy: selections, health changes, load and reloads
SSelect ==
    /\ rrCounter < MaxSelections
    /\ SelectBackend
    /\ UNCHANGED <<now, cbVars, poolVars, strategy, healthVars, retryVars,
                   routerVars, obsVars>>

\* the health trackers move a backend of the pool between HEALTHY and
\* UNHEALTHY
SSetState == \E i \in Range(pool), s \in {"HEALTHY", "UNHEALTHY"} :
    /\ inst' = [inst EXCEPT ![i] = SetState(@, s)]
    /\ UNCHANGED <<now, cbVars, pool, stratVars, healthVars, retryVars,
                   routerVars, obsVars>>

\* a request starts on a backend of the pool (the load is modelled under
\* the one strategy that reads it)
SIncrement == \E i \in Range(pool) :
    /\ strategy = "lc"
    /\ inst[i].active < MaxActive
    /\ inst' = [inst EXCEPT ![i] = IncrementActiveRequests(@)]
    /\ UNCHANGED <<now, cbVars, pool, stratVars, healthVars, retryVars,
                   routerVars, obsVars>>

\* a request ends on the backend it started on (requests still running on
\* a backend that a reload removed are left out: no selection reads them)
SDecrement == \E i \in Range(pool) :
    /\ strategy = "lc"
    /\ inst[i].active > 0
    /\ inst' = [inst EXCEPT ![i] = DecrementActiveRequests(@)]
    /\ UNCHANGED <<now, cbVars, pool, stratVars, healthVars, retryVars,
                   routerVars, obsVars>>

\* the configuration watcher's callback
SReload == \E cfg \in Configs :
    /\ Len(inst) + Len(cfg) <= MaxInst
    /\ ReplaceBackends(cfg)
    /\ UNCHANGED <<now, cbVars, stratVars, healthVars, retryVars, routerVars,
                   obsVars>>

InitStrategy ==
    /\ now = 0
    /\ CBIdle
    /\ \E cfg \in Configs :
          /\ inst = BackendsOf(cfg)
          /\ pool = [j \in 1..Len(cfg) |-> j]
    /\ strategy \in Strategies
    /\ rrCounter = 0
    /\ wrr = << >>
    /\ sel = 0
    /\ HealthIdle
    /\ RetryIdle
    /\ ObsIdle
    /\ RouterIdle

NextStrategy == SSelect \/ SSetState \/ SIncrement \/ SDecrement \/ SReload

SpecStrategy == InitStrategy /\ [][NextStrategy]_vars

\* C4: under each strategy SelectBackend returns nil iff the pool's healthy
\* subset is empty, and otherwise a backend of the pool's healthy subset.
C4_SelectsFromHealthy ==
    [][ SSelect =>
          /\ (sel' = 0) <=> (GetHealthyBackends = <<>>)
          /\ sel' # 0 => sel' \in Range(GetHealthyBackends)
      ]_vars

\* the same with the smooth weighted strategy left out
C4_SelectsFromHealthyRRLC ==
    [][ (SSelect /\ strategy # "wrr") =>
          /\ (sel' = 0) <=> (GetHealthyBackends = <<>>)
          /\ sel' # 0 => sel' \in Range(GetHealthyBackends)
      ]_vars

\* ------ SpecHealth: handlers, ReplaceBackends and readers, interleaved
\* checkAllBackends takes a snapshot with GetBackends and starts checkBackend
\* on each backend of it; ServeHTTP reports the outcome of a request on the
\* backend the strategy selected from its GetHealthyBackends snapshot. Both
\* reads take the pool's read lock.
WStart(w) == \E k \in Kinds :
    /\ hw[w].pc = "idle"
    /\ ~PoolWriteLocked
    /\ LET s == IF k \in {"probeOK", "probeFail"}
                THEN GetBackends ELSE GetHealthyBackends IN
       \E b \in Range(s) :
          hw' = [hw EXCEPT ![w] = [IdleWorker EXCEPT
                    !.pc = IF k = "passOK" THEN "metrics" ELSE "record",
                    !.kind = k, !.snap = s, !.b = b]]
    /\ UNCHANGED <<now, cbVars, poolVars, stratVars, rl, installed,
                   routerVars, retryVars, obsVars>>

\* b.RecordHealthCheckSuccess() / b.RecordHealthCheckFailure()
WRecord(w) ==
    /\ hw[w].pc = "record"
    /\ IF hw[w].kind = "probeOK"
       THEN /\ inst[hw[w].b].succ < MaxCount
            /\ inst' = [inst EXCEPT ![hw[w].b] = RecordHealthCheckSuccess(@)]
       ELSE /\ inst[hw[w].b].fail < MaxCount
            /\ inst' = [inst EXCEPT ![hw[w].b] = RecordHealthCheckFailure(@)]
    /\ hw' = [hw EXCEPT ![w].pc = "metrics"]
    /\ UNCHANGED <<now, cbVars, pool, stratVars, rl, installed, routerVars,
                   retryVars, obsVars>>

\* metrics := b.GetHealthMetrics()
WReadMetrics(w) ==
    /\ hw[w].pc = "metrics"
    /\ hw' = [hw EXCEPT ![w].m = GetHealthMetrics(inst[hw[w].b]),
                        ![w].pc = IF hw[w].kind = "passOK"
                                  THEN "decide" ELSE "state"]
    /\ UNCHANGED <<now, cbVars, poolVars, stratVars, rl, installed,
                   routerVars, retryVars, obsVars>>

\* currentState := b.GetState()
WReadState(w) ==
    /\ hw[w].pc = "state"
    /\ hw' = [hw EXCEPT ![w].st = GetState(inst[hw[w].b]),
                        ![w].pc = "decide"]
    /\ UNCHANGED <<now, cbVars, poolVars, stratVars, rl, installed,
                   routerVars, retryVars, obsVars>>

\* the handler's last lines: b.SetState(...) when the thresholds say so;
\* PassiveTracker.RecordSuccess calls b.RecordHealthCheckSuccess() when it
\* read a failure count above 0
WDecide(w) ==
    /\ hw[w].pc = "decide"
    /\ IF hw[w].kind = "passOK"
       THEN IF hw[w].m.fail > 0
            THEN /\ inst[hw[w].b].succ < MaxCount
                 /\ inst' = [inst EXCEPT
                                ![hw[w].b] = RecordHealthCheckSuccess(@)]
            ELSE UNCHANGED inst
       ELSE LET s == Decision(hw[w].kind, hw[w].m, hw[w].st) IN
            IF s # ""
            THEN inst' = [inst EXCEPT ![hw[w].b] = SetState(@, s)]
            ELSE UNCHANGED inst
    /\ hw' = [hw EXCEPT ![w] = IdleWorker]
    /\ UNCHANGED <<now, cbVars, pool, stratVars, rl, installed, routerVars,
                   retryVars, obsVars>>

\* the reload callback builds the new backends and calls ReplaceBackends,
\* which takes the write lock
RStart == \E cfg \in Configs :
    /\ rl.pc = "idle"
    /\ Len(inst) + Len(cfg) <= MaxHealthInst
    /\ inst' = inst \o BackendsOf(cfg)
    /\ rl' = [pc |-> "alive", j |-> 1,
              new |-> [j \in 1..Len(cfg) |-> Len(inst) + j]]
    /\ UNCHANGED <<now, cbVars, pool, stratVars, hw, installed, routerVars,
                   retryVars, obsVars>>

\* the old backend of the URL of the new backend being filled in (0: none)
RNew == rl.new[rl.j]
ROld == OldBackend(inst[RNew].key)
RNext == IF rl.j < Len(rl.new)
         THEN [rl EXCEPT !.pc = "alive", !.j = @ + 1]
         ELSE [rl EXCEPT !.pc = "install"]

\* newBackend.SetAlive(oldBackend.IsAlive()), or nothing for a new URL
RCopyAlive ==
    /\ rl.pc = "alive"
    /\ IF ROld = 0
       THEN rl' = RNext /\ UNCHANGED inst
       ELSE /\ inst' = [inst EXCEPT ![RNew] = SetAlive(@, IsAlive(inst[ROld]))]
            /\ rl' = [rl EXCEPT !.pc = "state"]
    /\ UNCHANGED <<now, cbVars, pool, stratVars, hw, installed, routerVars,
                   retryVars, obsVars>>

\* newBackend.SetState(oldBackend.GetState())
RCopyState ==
    /\ rl.pc = "state"
    /\ inst' = [inst EXCEPT ![RNew] = SetState(@, GetState(inst[ROld]))]
    /\ rl' = [rl EXCEPT !.pc = "metrics"]
    /\ UNCHANGED <<now, cbVars, pool, stratVars, hw, installed, routerVars,
                   retryVars, obsVars>>

\* newBackend.CopyHealthMetrics(oldBackend.GetHealthMetrics())
RCopyMetrics ==
    /\ rl.pc = "metrics"
    /\ inst' = [inst EXCEPT
                   ![RNew] = CopyHealthMetrics(@, GetHealthMetrics(inst[ROld]))]
    /\ rl' = RNext
    /\ UNCHANGED <<now, cbVars, pool, stratVars, hw, installed, routerVars,
                   retryVars, obsVars>>

\* p.backends = newBackends, and the deferred Unlock
RInstall ==
    /\ rl.pc = "install"
    /\ pool' = Install(rl.new)
    /\ installed' = rl.new
    /\ rl' = IdleReload
    /\ UNCHANGED <<now, cbVars, inst, stratVars, hw, routerVars, retryVars,
                   obsVars>>

InitHealth ==
    /\ now = 0
    /\ CBIdle
    /\ SelectIdle
    /\ \E cfg \in Configs :
          /\ inst = BackendsOf(cfg)
          /\ pool = [j \in 1..Len(cfg) |-> j]
          /\ installed = pool
    /\ hw = [w \in Workers |-> IdleWorker]
    /\ rl = IdleReload
    /\ RouterIdle
    /\ RetryIdle
    /\ ObsIdle

NextHealth ==
    \/ \E w \in Workers :
          WStart(w) \/ WRecord(w) \/ WReadMetrics(w) \/ WReadState(w)
                    \/ WDecide(w)
    \/ RStart \/ RCopyAlive \/ RCopyState \/ RCopyMetrics \/ RInstall

SpecHealth == InitHealth /\ [][NextHealth]_vars

\* C5: when ReplaceBackends installs the new list, every new backend whose
\* URL matches a backend of the old list has the alive flag, the state and
\* the two consecutive-result counters that the old backend has at that
\* moment, also while a probe or passive handler is updating the old one.
C5_PreservedAtInstall ==
    [][ RInstall =>
          \A j \in 1..Len(rl.new) :
             LET nb == inst[rl.new[j]]
                 o == OldBackend(nb.key) IN
             o # 0 => /\ IsAlive(nb) = IsAlive(inst[o])
                      /\ GetState(nb) = GetState(inst[o])
                      /\ GetHealthMetrics(nb) = GetHealthMetrics(inst[o]) ]_vars

\* C6: a snapshot is never a mixture of two lists: GetBackends returns, as
\* a sequence, exactly the list the pool was last given (the old list until
\* ReplaceBackends returns, its argument from then on), and
\* GetHealthyBackends returns the alive backends of that list in its order.
C6_AtomicReplace ==
    [][ \A w \in Workers :
          WStart(w) =>
             hw'[w].snap = IF hw'[w].kind \in {"probeOK", "probeFail"}
                           THEN installed
                           ELSE SelectSeq(installed,
                                          LAMBDA i : IsAlive(inst[i])) ]_vars

\* a probe holds the snapshot it took after a ReplaceBackends call with two
\* backends returned
C6_Witness ==
    \E w \in Workers :
       /\ hw[w].pc # "idle"
       /\ hw[w].kind = "probeOK"
       /\ rl.pc = "idle"
       /\ Len(installed) = 2
       /\ installed[1] > 1
       /\ hw[w].snap = installed

\* --------- SpecRouter: ServeHTTP for concurrent requests, beside reloads
\* the breaker getCircuitBreaker returns for backend b (created on first use)
BreakerOf(b) ==
    IF inst[b].key \in DOMAIN cbs THEN cbs[inst[b].key] ELSE NewCircuitBreaker

SetBreaker(b, c) ==
    [k \in DOMAIN cbs \cup {inst[b].key} |->
        IF k = inst[b].key THEN c ELSE cbs[k]]

\* the head of ServeHTTP: the body is buffered (a read error ends the
\* request with 400), then the request is tracked for the budget
ServeBegin(r) == \E bodyRead \in BOOLEAN :
    /\ req[r].pc = "new"
    /\ IF bodyRead
       THEN /\ retryPolicy' = [retryPolicy EXCEPT !.budget = TrackRequest(@)]
            /\ req' = [req EXCEPT ![r].pc = "loop", ![r].attempt = 1]
       ELSE /\ req' = [req EXCEPT
                         ![r] = Finish(WriteHeader(@, "router", 400), "done")]
            /\ UNCHANGED retryPolicy
    /\ UNCHANGED <<now, cbVars, poolVars, stratVars, healthVars, retryVars,
                   retriesTotal, obsVars>>

\* the head of the loop: the context check, then strategy.SelectBackend
ServeSelect(r) ==
    /\ req[r].pc = "loop"
    /\ IF req[r].cancelled
       THEN /\ req' = [req EXCEPT
                         ![r] = Finish(WriteHeader(@, "router", 499), "done")]
            /\ UNCHANGED stratVars
       ELSE /\ SelectBackend
            /\ req' = [req EXCEPT ![r] =
                         IF sel' = 0
                         THEN Finish(WriteHeader(@, "router", 503), "done")
                         ELSE [@ EXCEPT !.pc = "admit", !.b = sel']]
            /\ UNCHANGED strategy
    /\ UNCHANGED <<now, cbVars, poolVars, healthVars, retryVars, retryPolicy,
                   retriesTotal, obsVars>>

\* a plausible slip: after a refusal the same breaker is asked again, the
\* attempt not counted
ServeAdmitUncounted(r) ==
    LET a == AllowRequest(BreakerOf(req[r].b), now) IN
    /\ req[r].pc = "admit"
    /\ cbs' = SetBreaker(req[r].b, a.cb)
    /\ cbRet' = a.ok
    /\ IF a.ok
       THEN /\ req' = [req EXCEPT ![r].pc = "inc"]
            /\ UNCHANGED retriesTotal
       ELSE /\ retriesTotal' = retriesTotal
            /\ req' = req
    /\ UNCHANGED <<now, failLog, hoSucc, poolVars, stratVars, healthVars,
                   retryVars, retryPolicy, obsVars>>

\* getCircuitBreaker and cb.AllowRequest; a refusal counts as a retry with
\* reason circuit_open and moves on to the next attempt, if one is left
ServeAdmit(r) ==
    LET a == AllowRequest(BreakerOf(req[r].b), now) IN
    /\ req[r].pc = "admit"
    /\ cbs' = SetBreaker(req[r].b, a.cb)
    /\ cbRet' = a.ok
    /\ IF a.ok
       THEN /\ req' = [req EXCEPT ![r].pc = "inc"]
            /\ UNCHANGED retriesTotal
       ELSE /\ retriesTotal' = [retriesTotal EXCEPT !.circuit_open = @ + 1]
            /\ req' = [req EXCEPT ![r] =
                         IF @.attempt < ServeMaxAttempts
                         THEN [@ EXCEPT !.pc = "loop", !.attempt = @ + 1]
                         ELSE Finish(WriteHeader(@, "router", 503), "done")]
    /\ UNCHANGED <<now, failLog, hoSucc, poolVars, stratVars, healthVars,
                   retryVars,
                   retryPolicy, obsVars>>

\* backend.IncrementActiveRequests(), and the captureResponseWriter is made
ServeIncrement(r) ==
    /\ req[r].pc = "inc"
    /\ inst' = [inst EXCEPT ![req[r].b] = IncrementActiveRequests(@)]
    /\ req' = [req EXCEPT ![r].pc = "forward", ![r].incs = @ + 1,
                          ![r].statusCode = 200]
    /\ UNCHANGED <<now, cbVars, pool, stratVars, healthVars, retryVars,
                   retryPolicy,
                   retriesTotal, obsVars>>

\* backend.ReverseProxy.ServeHTTP(crw, r) answers: the proxy writes the
\* upstream's status (502 and 503 alike are a 5xx here) through crw to the
\* client; it returns, or it panics while copying the body (the handler
\* is unwound: nothing after this line of ServeHTTP runs)
ServeForwardWith(r, codes) == \E code \in codes, abort \in BOOLEAN :
    /\ req[r].pc = "forward"
    /\ req' = [req EXCEPT ![r] =
                 LET q == [WriteHeader(@, "proxy", code) EXCEPT
                              !.up = Append(@, code)] IN
                 IF abort
                 THEN Finish(q, "panicked")
                 ELSE [q EXCEPT !.statusCode = code, !.pc = "dec"]]
    /\ UNCHANGED <<now, cbVars, poolVars, stratVars, healthVars, retryVars,
                   retryPolicy,
                   retriesTotal, obsVars>>

ServeForward(r) == ServeForwardWith(r, Statuses)

\* backend.DecrementActiveRequests(), the line after the forwarding call
ServeDecrement(r) ==
    /\ req[r].pc = "dec"
    /\ inst' = [inst EXCEPT ![req[r].b] = DecrementActiveRequests(@)]
    /\ req' = [req EXCEPT ![r].pc = "record", ![r].decs = @ + 1]
    /\ UNCHANGED <<now, cbVars, pool, stratVars, healthVars, retryVars,
                   retryPolicy,
                   retriesTotal, obsVars>>

\* the outcome is reported to the passive tracker and the breaker; a 5xx
\* is retried when the policy allows it
ServeRecord(r) ==
    LET q == req[r]
        sr == ShouldRetry(retryPolicy, q.method, q.cancelled,
                          StatusError(q.statusCode), q.attempt, now)
    IN
    /\ q.pc = "record"
    /\ IF q.statusCode >= 500
       THEN /\ inst' = [inst EXCEPT ![q.b] = PassiveRecordFailure(@)]
            /\ cbs' = SetBreaker(q.b, RecordFailure(BreakerOf(q.b), now))
            /\ retryPolicy' = sr.policy
            /\ IF sr.ok
               THEN /\ retriesTotal' =
                         [retriesTotal EXCEPT !.server_error = @ + 1]
                    /\ req' = [req EXCEPT ![r] =
                                 IF @.attempt < ServeMaxAttempts
                                 THEN [@ EXCEPT !.pc = "loop",
                                                !.attempt = @ + 1]
                                 ELSE Finish(@, "done")]
               ELSE /\ req' = [req EXCEPT ![r] = Finish(@, "done")]
                    /\ UNCHANGED retriesTotal
       ELSE /\ inst' = [inst EXCEPT ![q.b] = PassiveRecordSuccess(@)]
            /\ cbs' = SetBreaker(q.b, RecordSuccess(BreakerOf(q.b), now))
            /\ req' = [req EXCEPT ![r] = Finish(@, "done")]
            /\ UNCHANGED <<retryPolicy, retriesTotal>>
    /\ UNCHANGED <<now, cbRet, failLog, hoSucc, pool, stratVars, healthVars,
                   retryVars, obsVars>>

\* the client goes away: the request's context is cancelled
ServeCancel(r) ==
    /\ ~Finished(req[r])
    /\ ~req[r].cancelled
    /\ req' = [req EXCEPT ![r].cancelled = TRUE]
    /\ UNCHANGED <<now, cbVars, poolVars, stratVars, healthVars, retryVars,
                   retryPolicy,
                   retriesTotal, obsVars>>

\* a configuration reload replaces the pool's backends
ServeReload == \E cfg \in Configs :
    /\ Len(inst) + Len(cfg) <= MaxRouterInst
    /\ ReplaceBackends(cfg)
    /\ UNCHANGED <<now, cbVars, stratVars, healthVars, retryVars, routerVars,
                   obsVars>>

InitRouter ==
    /\ now = 0
    /\ CBIdle
    /\ \E cfg \in Configs :
          /\ inst = BackendsOf(cfg)
          /\ pool = [j \in 1..Len(cfg) |-> j]
    /\ strategy \in Strategies
    /\ rrCounter = 0
    /\ wrr = << >>
    /\ sel = 0
    /\ HealthIdle
    /\ RetryIdle
    /\ ObsIdle
    /\ req = [r \in Reqs |-> NewRequest(ReqMethod[r])]
    /\ retryPolicy = NewPolicy(PolicyMaxAttempts, BudgetPercent, now)
    /\ retriesTotal = [circuit_open |-> 0, server_error |-> 0]

NextRouter ==
    \/ \E r \in Reqs :
          \/ ServeBegin(r) \/ ServeSelect(r) \/ ServeAdmit(r)
          \/ ServeIncrement(r) \/ ServeForward(r) \/ ServeDecrement(r)
          \/ ServeRecord(r) \/ ServeCancel(r)
    \/ ServeReload

SpecRouter == InitRouter /\ [][NextRouter]_vars

\* ---- SpecBypass: ServeHTTP when the first backend's circuit is OPEN
\* the breaker after n RecordFailure calls at time t
RECURSIVE FailedTimes(_, _, _)
FailedTimes(c, n, t) ==
    IF n = 0 THEN c ELSE FailedTimes(RecordFailure(c, t), n - 1, t)

\* the first backend has failed requests: its breaker has seen
\* failure_threshold failures in one window and is OPEN, the last two of
\* them came after the backend was marked HEALTHY again, so that it is in
\* the healthy subset; the other backend is fresh
InitBypass ==
    /\ now = 0
    /\ \E cfg \in {c \in Configs : Len(c) = 2} :
          /\ inst = [BackendsOf(cfg) EXCEPT
                       ![1] = PassiveRecordFailure(PassiveRecordFailure(@))]
          /\ pool = [j \in 1..Len(cfg) |-> j]
    /\ cbs = (inst[1].key :>
                 FailedTimes(NewCircuitBreaker, CBFailureThreshold, now))
    /\ cbRet = TRUE
    /\ failLog = <<>>
    /\ hoSucc = 0
    /\ strategy \in Strategies
    /\ rrCounter = 0
    /\ wrr = << >>
    /\ sel = 0
    /\ HealthIdle
    /\ RetryIdle
    /\ ObsIdle
    /\ req = [r \in Reqs |-> NewRequest(ReqMethod[r])]
    /\ retryPolicy = NewPolicy(PolicyMaxAttempts, BudgetPercent, now)
    /\ retriesTotal = [circuit_open |-> 0, server_error |-> 0]

SpecBypass == InitBypass /\ [][NextRouter]_vars


\* ---- SpecAttempts: ServeHTTP under each configured retry.max_attempts
\* the values of retry.max_attempts a configuration file may carry (the
\* configuration loader puts no limit on the field)
PolicyLimits == {1, 2, 3, 4}

InitAttempts ==
    /\ now = 0
    /\ CBIdle
    /\ \E cfg \in Configs :
          /\ inst = BackendsOf(cfg)
          /\ pool = [j \in 1..Len(cfg) |-> j]
    /\ strategy \in Strategies
    /\ rrCounter = 0
    /\ wrr = << >>
    /\ sel = 0
    /\ HealthIdle
    /\ RetryIdle
    /\ ObsIdle
    /\ req = [r \in Reqs |-> NewRequest(ReqMethod[r])]
    /\ \E limit \in PolicyLimits :
          retryPolicy = NewPolicy(limit, BudgetPercent, now)
    /\ retriesTotal = [circuit_open |-> 0, server_error |-> 0]

SpecAttempts == InitAttempts /\ [][NextRouter]_vars

\* C13: whatever max_attempts the policy was made with, a GET that was
\* not cancelled, met no refusing breaker, had budget tokens left and has
\* been answered after upstream attempts that all returned 5xx was
\* forwarded exactly max_attempts times.
C13_ForwardedMaxAttemptsTimes ==
    \A r \in Reqs :
       ( /\ req[r].method = "GET"
         /\ req[r].pc = "done"
         /\ ~req[r].cancelled
         /\ retriesTotal.circuit_open = 0
         /\ retryPolicy.budget.tokens > 0
         /\ req[r].up # <<>>
         /\ \A i \in DOMAIN req[r].up : req[r].up[i] \div 100 = 5
         /\ \A i \in DOMAIN req[r].wrote : req[r].wrote[i].by = "proxy" )
       => Len(req[r].up) = retryPolicy.maxAttempts

\* C12: under each strategy, when the only request made so far arrived
\* with the first backend's circuit OPEN and the second backend HEALTHY with
\* its circuit CLOSED, was not cancelled and has been answered, it was
\* forwarded to the second backend and the router wrote no 503.
C12_BypassesOpenCircuit ==
    \A r \in Reqs :
       ( /\ Len(inst) = 2
         /\ \A r2 \in Reqs \ {r} : req[r2].pc = "new"
         /\ req[r].pc = "done"
         /\ ~req[r].cancelled
         /\ ClientStatus(req[r]) # 400 )
       => /\ Len(req[r].up) >= 1
          /\ \A i \in DOMAIN req[r].wrote :
                ~(req[r].wrote[i].by = "router" /\ req[r].wrote[i].code = 503)


\* ---- SpecRetry: Policy.ShouldRetry called with every kind of argument
\* the methods of the requests and the errors the calls are made with
RetryMethods ==
    {"GET", "HEAD", "OPTIONS", "PUT", "DELETE", "POST", "PATCH", "TRACE"}
RetryErrors ==
    {ErrorMessages[k] : k \in DOMAIN ErrorMessages}
       \cup {NilError, StatusError(404), StatusError(500), StatusError(503)}

\* retry.NewPolicy(limit, 1): the smallest budget, 10 tokens
RetryPercent == 1

RetryCall ==
    LET sr == ShouldRetry(retryPolicy, call.method, call.cancelled, call.err,
                          call.attempt, now) IN
    /\ retryPolicy.budget.requestCounter < MaxTracked
    /\ retryPolicy' = sr.policy
    /\ call' = [call EXCEPT !.made = TRUE, !.ok = sr.ok]
    /\ UNCHANGED <<now, cbVars, poolVars, stratVars, healthVars, req,
                   retriesTotal, bg, tally, obsVars>>

\* the client goes away: the request's context is cancelled
RetryCancel ==
    /\ ~call.cancelled
    /\ call' = [call EXCEPT !.cancelled = TRUE]
    /\ UNCHANGED <<now, cbVars, poolVars, stratVars, healthVars, routerVars,
                   bg, tally, obsVars>>

RetryTick ==
    /\ now < MaxRetryTime
    /\ now' = now + 1
    /\ UNCHANGED <<cbVars, poolVars, stratVars, healthVars, routerVars,
                   retryVars, obsVars>>

InitRetry ==
    /\ now = 0
    /\ CBIdle
    /\ PoolIdle
    /\ SelectIdle
    /\ ObsIdle
    /\ HealthIdle
    /\ req = << >>
    /\ \E limit \in PolicyLimits :
          retryPolicy = NewPolicy(limit, RetryPercent, now)
    /\ retriesTotal = [circuit_open |-> 0, server_error |-> 0]
    /\ \E method \in RetryMethods, err \in RetryErrors,
          attempt \in 1..MaxAttempt :
          call = [method |-> method, err |-> err, attempt |-> attempt,
                  cancelled |-> FALSE, made |-> FALSE, ok |-> FALSE]
    /\ bg = << >>
    /\ tally = << >>

NextRetry == RetryCall \/ RetryCancel \/ RetryTick

SpecRetry == InitRetry /\ [][NextRetry]_vars

\* C14: a request whose method is none of GET, HEAD, OPTIONS, PUT, DELETE
\* has been forwarded upstream at most once, and wherever ServeHTTP is
\* about to consult the policy ShouldRetry answers false for every such
\* method with every error and attempt number, for a client that is still
\* there, on the policy and budget as they stand.
C14_NonIdempotentNeverRetried ==
    /\ \A r \in Reqs :
          req[r].method \notin {"GET", "HEAD", "OPTIONS", "PUT", "DELETE"}
             => Len(req[r].up) <= 1
    /\ (\E r \in Reqs : req[r].pc = "record")
          => \A method \in
                   RetryMethods \ {"GET", "HEAD", "OPTIONS", "PUT", "DELETE"},
                err \in RetryErrors, attempt \in 1..MaxAttempt :
                ~ShouldRetry(retryPolicy, method, FALSE, err, attempt, now).ok

\* a POST that was not cancelled got a 5xx on its first attempt, with
\* attempts and budget tokens left, and has returned
C14_Witness ==
    \E r \in Reqs :
       /\ req[r].method = "POST"
       /\ req[r].pc = "done"
       /\ ~req[r].cancelled
       /\ req[r].up = <<503>>
       /\ retryPolicy.budget.tokens > 0
       /\ retryPolicy.maxAttempts > 1


\* the errors of the kinds named retryable: connection refused, connection
\* reset, broken pipe, no route to host, I/O timeout, EOF, deadline
\* exceeded, an upstream 5xx
RetryableKinds ==
    {ErrorMessages.refused, ErrorMessages.reset, ErrorMessages.pipe,
     ErrorMessages.noRoute, ErrorMessages.timeout, ErrorMessages.eof,
     ErrorMessages.unexpectedEOF, ErrorMessages.deadline,
     StatusError(500), StatusError(503)}

\* C15: a ShouldRetry call answers false for every error that is not of a
\* retryable kind, and true for every error of a retryable kind when the
\* client has not cancelled, the attempt number is below max_attempts, the
\* method is idempotent and the budget holds a token.
C15_RetryableErrors ==
    [][ RetryCall =>
          /\ call.err \notin RetryableKinds => ~call'.ok
          /\ ( /\ call.err \in RetryableKinds
               /\ ~call.cancelled
               /\ call.attempt < retryPolicy.maxAttempts
               /\ call.method \in {"GET", "HEAD", "OPTIONS", "PUT", "DELETE"}
               /\ retryPolicy.budget.tokens > 0 )
             => call'.ok ]_vars

\* the same, leaving the two EOF errors aside
C15_RetryableErrorsButEOF ==
    [][ RetryCall /\ call.err \notin {ErrorMessages.eof,
                                      ErrorMessages.unexpectedEOF} =>
          /\ call.err \notin RetryableKinds => ~call'.ok
          /\ ( /\ call.err \in RetryableKinds
               /\ ~call.cancelled
               /\ call.attempt < retryPolicy.maxAttempts
               /\ call.method \in {"GET", "HEAD", "OPTIONS", "PUT", "DELETE"}
               /\ retryPolicy.budget.tokens > 0 )
             => call'.ok ]_vars


\* C16: once a request's context is cancelled, ShouldRetry lets no retry
\* through (the attempt that got its answer is the last), no backend is
\* selected for it any more, and the next head of the loop answers the
\* client 499 and returns without selecting or forwarding.
C16_CancelledStops ==
    [][ \A r \in Reqs :
          req[r].cancelled =>
             /\ ServeRecord(r) => req'[r].pc = "done"
             /\ req'[r].pc = "admit" => req[r].pc = "admit"
             /\ ServeSelect(r) =>
                   /\ req'[r].pc = "done"
                   /\ req'[r].up = req[r].up
                   /\ UNCHANGED stratVars
                   /\ ClientStatus(req'[r]) = 499 ]_vars

\* the same, with the 499 as a status the router writes, whatever reached
\* the client before
C16_CancelledStopsWriting499 ==
    [][ \A r \in Reqs :
          req[r].cancelled =>
             /\ ServeRecord(r) => req'[r].pc = "done"
             /\ req'[r].pc = "admit" => req[r].pc = "admit"
             /\ ServeSelect(r) =>
                   /\ req'[r].pc = "done"
                   /\ req'[r].up = req[r].up
                   /\ UNCHANGED stratVars
                   /\ req'[r].wrote =
                         Append(req[r].wrote, [by |-> "router", code |-> 499])
      ]_vars


\* ---- SpecBudget: a Budget under TrackRequest, TryConsume, GetAvailable
\* the configured retry.budget_percent values: the smallest and the largest
BudgetPercents == {1, 100}

\* Budget.GetAvailable: the budget after the call (the value returned is
\* its tokens)
GetAvailable(bd, tnow) == refill(bd, tnow)

\* the record kept beside the Budget: rate is the number of TrackRequest
\* calls made in every second, tracked the number made in the running
\* second; granted is the number of TryConsume calls that returned true,
\* cap the largest maxTokens, both since the Budget was made
NewTally(rate, bd) ==
    [rate |-> rate, tracked |-> 0, granted |-> 0, cap |-> bd.maxTokens]

Larger(a, b) == IF a > b THEN a ELSE b

BudgetTrack ==
    /\ tally.tracked < tally.rate
    /\ retryPolicy' = [retryPolicy EXCEPT !.budget = TrackRequest(@)]
    /\ tally' = [tally EXCEPT !.tracked = @ + 1]
    /\ UNCHANGED <<now, cbVars, poolVars, stratVars, healthVars, req,
                   retriesTotal, call, bg, obsVars>>

BudgetTryConsume ==
    LET c == TryConsume(retryPolicy.budget, now) IN
    /\ tally.granted < MaxGranted
    /\ retryPolicy' = [retryPolicy EXCEPT !.budget = c.budget]
    /\ tally' = [tally EXCEPT
                   !.granted = IF c.ok THEN @ + 1 ELSE @,
                   !.cap = Larger(@, c.budget.maxTokens)]
    /\ UNCHANGED <<now, cbVars, poolVars, stratVars, healthVars, req,
                   retriesTotal, call, bg, obsVars>>

BudgetGetAvailable ==
    /\ retryPolicy' =
          [retryPolicy EXCEPT !.budget = GetAvailable(@, now)]
    /\ tally' = [tally EXCEPT !.cap = Larger(@, retryPolicy'.budget.maxTokens)]
    /\ UNCHANGED <<now, cbVars, poolVars, stratVars, healthVars, req,
                   retriesTotal, call, bg, obsVars>>

\* a second in which the traffic came at its rate has passed
BudgetTick ==
    /\ now < MaxBudgetTime
    /\ tally.tracked = tally.rate
    /\ now' = now + 1
    /\ tally' = [tally EXCEPT !.tracked = 0]
    /\ UNCHANGED <<cbVars, poolVars, stratVars, healthVars, routerVars,
                   call, bg, obsVars>>

InitBudget ==
    /\ now = 0
    /\ CBIdle
    /\ PoolIdle
    /\ SelectIdle
    /\ ObsIdle
    /\ HealthIdle
    /\ req = << >>
    /\ \E percent \in BudgetPercents :
          retryPolicy = NewPolicy(ServeMaxAttempts, percent, now)
    /\ retriesTotal = [circuit_open |-> 0, server_error |-> 0]
    /\ call = NoCall
    /\ bg = << >>
    /\ \E rate \in 0..MaxRate : tally = NewTally(rate, retryPolicy.budget)

NextBudget ==
    BudgetTrack \/ BudgetTryConsume \/ BudgetGetAvailable \/ BudgetTick

SpecBudget == InitBudget /\ [][NextBudget]_vars

\* C17: on a budget that has seen no TrackRequest call since it was made,
\* no TryConsume call is granted a token.
C17_NoTrafficNoRetries ==
    [][ BudgetTryConsume /\ tally.rate = 0
           => tally'.granted = tally.granted ]_vars


\* C18: when r >= 1 requests were tracked in every second, the number of
\* TryConsume calls granted in the n >= 10 seconds since the Budget was made
\* is at most n*r*percent/100 plus the largest maxTokens of that time.
C18_RetryFractionBounded ==
    (tally.rate >= 1 /\ now + 1 >= 10)
       => tally.granted * 100
             <= (now + 1) * tally.rate * retryPolicy.budget.percent
                   + 100 * tally.cap

\* C20: a call that applies a refill after r TrackRequest calls leaves
\* refillRate = max(1, r*percent/100), maxTokens = max(1, r*percent/100)
\* and tokens <= that maxTokens.
C20_RefillAdaptsRateAndCap ==
    [][ LET bd == retryPolicy.budget
            share == (bd.requestCounter * bd.percent) \div 100
        IN ( /\ BudgetTryConsume \/ BudgetGetAvailable
             /\ now > bd.lastRefill )
           => /\ retryPolicy'.budget.refillRate = Larger(1, share)
              /\ retryPolicy'.budget.maxTokens = Larger(1, share)
              /\ retryPolicy'.budget.tokens <= Larger(1, share) ]_vars

\* the same for the refills that observed r with r*percent/100 >= 1
C20_RefillAdaptsAtFullShare ==
    [][ LET bd == retryPolicy.budget
            share == (bd.requestCounter * bd.percent) \div 100
        IN ( /\ BudgetTryConsume \/ BudgetGetAvailable
             /\ now > bd.lastRefill
             /\ share >= 1 )
           => /\ retryPolicy'.budget.refillRate = share
              /\ retryPolicy'.budget.maxTokens = share
              /\ retryPolicy'.budget.tokens <= share ]_vars


\* ---- SpecRefill: goroutines inside TryConsume and GetAvailable, one
\* memory operation at a time
Goroutines == {1, 2}

\* a goroutine outside the Budget's methods
IdleCaller ==
    [pc |-> "idle", op |-> "TryConsume", now |-> 0, last |-> 0, add |-> 0,
     current |-> 0, newTokens |-> 0]

\* refill returns into TryConsume or GetAvailable: its locals are gone
LeaveRefill(c) ==
    [IdleCaller EXCEPT !.op = c.op,
                      !.pc = IF c.op = "TryConsume" THEN "load"
                             ELSE "available"]

\* atomic.CompareAndSwapInt64(&b.lastRefill, last, now) done as a plain store
StoreLastRefill(bd, last, tnow) ==
    [budget |-> [bd EXCEPT !.lastRefill = tnow], ok |-> TRUE]

\* atomic.CompareAndSwapInt64(&b.lastRefill, last, now)
CasLastRefill(bd, last, tnow) ==
    IF bd.lastRefill = last
    THEN [budget |-> [bd EXCEPT !.lastRefill = tnow], ok |-> TRUE]
    ELSE [budget |-> bd, ok |-> FALSE]

SetBudget(bd) == retryPolicy' = [retryPolicy EXCEPT !.budget = bd]

\* the entry of tally for the refill goroutine g has claimed
EntryOf(g) ==
    CHOOSE i \in DOMAIN tally : tally[i].g = g /\ tally[i].now = bg.at[g].now

\* a compare-and-swap on lastRefill is entered in tally: a new refill
\* claimed by g, or one more loser of the refill that moved lastRefill on
\* from the value g had loaded (g |-> 0: there is none)
Claimed(g, ok) ==
    LET e == [g |-> g, last |-> bg.at[g].last, now |-> bg.at[g].now,
              swapped |-> 0, added |-> 0, lost |-> 0]
        S == {i \in DOMAIN tally : tally[i].last = bg.at[g].last} IN
    IF ok THEN Append(tally, e)
    ELSE IF S = {} THEN Append(tally, [e EXCEPT !.g = 0, !.lost = 1])
    ELSE [tally EXCEPT ![CHOOSE i \in S : TRUE].lost = @ + 1]

\* TryConsume or GetAvailable is entered; refill reads the clock
RCall(g) == \E op \in {"TryConsume", "GetAvailable"} :
    /\ bg.at[g].pc = "idle"
    /\ bg.calls < MaxCalls
    /\ bg' = [bg EXCEPT !.calls = @ + 1,
                        !.at[g] = [@ EXCEPT !.pc = "last", !.op = op,
                                            !.now = now]]
    /\ UNCHANGED <<now, cbVars, poolVars, stratVars, healthVars, routerVars,
                   call, tally, obsVars>>

\* last := atomic.LoadInt64(&b.lastRefill); no time elapsed: refill returns
RLoadLast(g) ==
    /\ bg.at[g].pc = "last"
    /\ bg' = [bg EXCEPT !.at[g] =
                 IF @.now <= retryPolicy.budget.lastRefill
                 THEN LeaveRefill(@)
                 ELSE [@ EXCEPT !.last = retryPolicy.budget.lastRefill,
                                !.pc = "cas"]]
    /\ UNCHANGED <<now, cbVars, poolVars, stratVars, healthVars, routerVars,
                   call, tally, obsVars>>

\* the compare-and-swap on lastRefill; the loser's refill returns
RCasLast(g) ==
    LET c == CasLastRefill(retryPolicy.budget, bg.at[g].last, bg.at[g].now) IN
    /\ bg.at[g].pc = "cas"
    /\ SetBudget(c.budget)
    /\ bg' = [bg EXCEPT !.at[g] = IF c.ok THEN [@ EXCEPT !.pc = "swap"]
                               ELSE LeaveRefill(@)]
    /\ tally' = Claimed(g, c.ok)
    /\ UNCHANGED <<now, cbVars, poolVars, stratVars, healthVars, req,
                   retriesTotal, call, obsVars>>

\* actualRate := atomic.SwapInt64(&b.requestCounter, 0); no traffic seen:
\* the rate and the cap stay
RSwap(g) ==
    LET bd == retryPolicy.budget IN
    /\ bg.at[g].pc = "swap"
    /\ SetBudget([bd EXCEPT !.requestCounter = 0])
    /\ bg' = [bg EXCEPT !.at[g].current = bd.requestCounter,
                        !.at[g].pc = IF bd.requestCounter > 0 THEN "adjust"
                                  ELSE "rate"]
    /\ tally' = [tally EXCEPT ![EntryOf(g)].swapped = @ + 1]
    /\ UNCHANGED <<now, cbVars, poolVars, stratVars, healthVars, req,
                   retriesTotal, call, obsVars>>

\* b.refillRate = actualRate * int64(b.percent) / 100, a plain write
RWriteRate(g) ==
    LET bd == retryPolicy.budget IN
    /\ bg.at[g].pc = "adjust"
    /\ SetBudget([bd EXCEPT !.refillRate = (bg.at[g].current * bd.percent)
                                              \div 100])
    /\ bg' = [bg EXCEPT !.at[g].pc = "floor"]
    /\ UNCHANGED <<now, cbVars, poolVars, stratVars, healthVars, req,
                   retriesTotal, call, tally, obsVars>>

\* if b.refillRate < 1 { b.refillRate = 1 }, and the new cap is stored when
\* it is positive
RFloorRate(g) ==
    LET bd == retryPolicy.budget
        newMaxTokens == (bg.at[g].current * bd.percent) \div 100 IN
    /\ bg.at[g].pc = "floor"
    /\ SetBudget([bd EXCEPT
                    !.refillRate = Larger(1, @),
                    !.maxTokens = IF newMaxTokens > 0 THEN newMaxTokens
                                  ELSE @])
    /\ bg' = [bg EXCEPT !.at[g].current = 0, !.at[g].pc = "rate"]
    /\ UNCHANGED <<now, cbVars, poolVars, stratVars, healthVars, req,
                   retriesTotal, call, tally, obsVars>>

\* tokensToAdd := elapsed * b.refillRate
RReadRate(g) ==
    /\ bg.at[g].pc = "rate"
    /\ bg' = [bg EXCEPT !.at[g].add = (bg.at[g].now - bg.at[g].last)
                                      * retryPolicy.budget.refillRate,
                        !.at[g].pc = "tokens"]
    /\ UNCHANGED <<now, cbVars, poolVars, stratVars, healthVars, routerVars,
                   call, tally, obsVars>>

\* current and maxTokens are loaded, newTokens is computed
RLoadTokens(g) ==
    LET bd == retryPolicy.budget
        sum == bd.tokens + bg.at[g].add IN
    /\ bg.at[g].pc = "tokens"
    /\ bg' = [bg EXCEPT !.at[g].current = bd.tokens,
                        !.at[g].newTokens = IF sum > bd.maxTokens
                                         THEN bd.maxTokens ELSE sum,
                        !.at[g].pc = "add"]
    /\ UNCHANGED <<now, cbVars, poolVars, stratVars, healthVars, routerVars,
                   call, tally, obsVars>>

\* atomic.CompareAndSwapInt64(&b.tokens, current, newTokens): the refill is
\* done, or the loop goes round
RCasTokens(g) ==
    LET bd == retryPolicy.budget IN
    /\ bg.at[g].pc = "add"
    /\ IF bd.tokens = bg.at[g].current
       THEN /\ SetBudget([bd EXCEPT !.tokens = bg.at[g].newTokens])
            /\ bg' = [bg EXCEPT !.at[g] = LeaveRefill(@)]
            /\ tally' = [tally EXCEPT ![EntryOf(g)].added = @ + 1]
       ELSE /\ bg' = [bg EXCEPT !.at[g].pc = "tokens"]
            /\ UNCHANGED <<retryPolicy, tally>>
    /\ UNCHANGED <<now, cbVars, poolVars, stratVars, healthVars, req,
                   retriesTotal, call, obsVars>>

\* TryConsume: current := atomic.LoadInt64(&b.tokens); none left: false
RLoad(g) ==
    /\ bg.at[g].pc = "load"
    /\ bg' = [bg EXCEPT !.at[g] = IF retryPolicy.budget.tokens <= 0
                               THEN IdleCaller
                               ELSE [@ EXCEPT
                                       !.current = retryPolicy.budget.tokens,
                                       !.pc = "take"]]
    /\ UNCHANGED <<now, cbVars, poolVars, stratVars, healthVars, routerVars,
                   call, tally, obsVars>>

\* a plausible slip: current - 1 is stored without comparing
RTakeStore(g) ==
    LET bd == retryPolicy.budget IN
    /\ bg.at[g].pc = "take"
    /\ SetBudget([bd EXCEPT !.tokens = bg.at[g].current - 1])
    /\ bg' = [bg EXCEPT !.at[g] = IdleCaller]
    /\ UNCHANGED <<now, cbVars, poolVars, stratVars, healthVars, req,
                   retriesTotal, call, tally, obsVars>>

\* TryConsume: the compare-and-swap to current - 1: true, or round again
RTake(g) ==
    LET bd == retryPolicy.budget IN
    /\ bg.at[g].pc = "take"
    /\ IF bd.tokens = bg.at[g].current
       THEN /\ SetBudget([bd EXCEPT !.tokens = @ - 1])
            /\ bg' = [bg EXCEPT !.at[g] = IdleCaller]
       ELSE /\ bg' = [bg EXCEPT !.at[g].pc = "load"]
            /\ UNCHANGED retryPolicy
    /\ UNCHANGED <<now, cbVars, poolVars, stratVars, healthVars, req,
                   retriesTotal, call, tally, obsVars>>

\* GetAvailable: return atomic.LoadInt64(&b.tokens)
RAvailable(g) ==
    /\ bg.at[g].pc = "available"
    /\ bg' = [bg EXCEPT !.at[g] = IdleCaller]
    /\ UNCHANGED <<now, cbVars, poolVars, stratVars, healthVars, routerVars,
                   call, tally, obsVars>>

\* some request is tracked
RTrack ==
    /\ retryPolicy.budget.requestCounter < MaxCounter
    /\ SetBudget(TrackRequest(retryPolicy.budget))
    /\ UNCHANGED <<now, cbVars, poolVars, stratVars, healthVars, req,
                   retriesTotal, retryVars, obsVars>>

RTick ==
    /\ now < MaxRefillTime
    /\ now' = now + 1
    /\ UNCHANGED <<cbVars, poolVars, stratVars, healthVars, routerVars,
                   retryVars, obsVars>>

InitRefill ==
    /\ now = 0
    /\ CBIdle
    /\ PoolIdle
    /\ SelectIdle
    /\ ObsIdle
    /\ HealthIdle
    /\ req = << >>
    /\ retryPolicy = NewPolicy(ServeMaxAttempts, RetryPercent, now)
    /\ retriesTotal = [circuit_open |-> 0, server_error |-> 0]
    /\ call = NoCall
    /\ bg = [calls |-> 0, at |-> [g \in Goroutines |-> IdleCaller]]
    /\ tally = << >>

NextRefill ==
    \/ \E g \in Goroutines :
          \/ RCall(g) \/ RLoadLast(g) \/ RCasLast(g) \/ RSwap(g)
          \/ RWriteRate(g) \/ RFloorRate(g) \/ RReadRate(g)
          \/ RLoadTokens(g) \/ RCasTokens(g)
          \/ RLoad(g) \/ RTake(g) \/ RAvailable(g)
    \/ RTrack
    \/ RTick

SpecRefill == InitRefill /\ [][NextRefill]_vars


\* C19: lastRefill never decreases; the refills claimed cover intervals
\* that follow one another without overlap, so none is claimed twice; for
\* each the counter is read-and-zeroed once and tokens are added once, and
\* both are done when the winner leaves refill; a goroutine that loses the
\* compare-and-swap on lastRefill lost it to another goroutine, which
\* claimed the refill from the same lastRefill value.
C19_OneRefillPerBoundary ==
    [][ /\ retryPolicy'.budget.lastRefill >= retryPolicy.budget.lastRefill
        /\ \A i, j \in DOMAIN tally' :
              i < j => /\ tally'[i].last < tally'[i].now
                       /\ tally'[i].now <= tally'[j].last
        /\ \A i \in DOMAIN tally' :
              /\ tally'[i].g \in Goroutines
              /\ tally'[i].swapped <= 1
              /\ tally'[i].added <= tally'[i].swapped
        /\ \A g \in Goroutines :
              /\ (RCasLast(g) /\ Len(tally') = Len(tally))
                    => \E i \in DOMAIN tally :
                          /\ tally[i].last = bg.at[g].last
                          /\ tally[i].g # g
              /\ (bg.at[g].pc = "add" /\ bg'.at[g].pc \in {"load", "available"})
                    => /\ tally'[EntryOf(g)].swapped = 1
                       /\ tally'[EntryOf(g)].added = 1 ]_vars

\* two goroutines met at a second boundary: one claimed the refill, zeroed
\* the counter and added the tokens, the other lost the compare-and-swap
C19_Witness ==
    \E i \in DOMAIN tally :
       /\ tally[i].g \in Goroutines
       /\ tally[i].lost = 1
       /\ tally[i].swapped = 1
       /\ tally[i].added = 1

\* ------- SpecRR: concurrent callers of RoundRobinStrategy.SelectBackend
\* Each caller reads the healthy subset, adds one to the counter (one atomic
\* operation) and returns the backend at the index its count gives. The
\* pool and the health states stay as they are.
RRCallers == {1, 2}

IdleSelect == [pc |-> "idle", backends |-> << >>, count |-> 0]

\* the three backends a pool is built with, in pool order
RRKeys == <<"a", "b", "c">>

\* backends := pool.GetHealthyBackends(); nil is returned when it is empty
RRRead(g) ==
    /\ callers[g].pc = "idle"
    /\ rrCounter + Cardinality({h \in RRCallers : callers[h].pc # "idle"})
          < MaxPicks
    /\ IF GetHealthyBackends = << >>
       THEN /\ sel' = 0
            /\ UNCHANGED callers
       ELSE /\ callers' = [callers EXCEPT ![g] =
                             [@ EXCEPT !.pc = "add",
                                       !.backends = GetHealthyBackends]]
            /\ UNCHANGED sel
    /\ UNCHANGED <<now, cbVars, poolVars, strategy, rrCounter, wrr,
                   healthVars, routerVars, retryVars, picks, prober, body,
                   gauges, probed, getters>>

\* count := atomic.AddUint64(&rr.counter, 1)
RRAdd(g) ==
    /\ callers[g].pc = "add"
    /\ rrCounter' = rrCounter + 1
    /\ callers' = [callers EXCEPT ![g] =
                     [@ EXCEPT !.pc = "return", !.count = rrCounter']]
    /\ UNCHANGED <<now, cbVars, poolVars, strategy, wrr, sel, healthVars,
                   routerVars, retryVars, picks, prober, body,
                   gauges, probed, getters>>

\* index := int((count - 1) % uint64(len(backends)));
\* return backends[index]
RRReturn(g) ==
    /\ callers[g].pc = "return"
    /\ sel' = callers[g].backends[RRIndex(callers[g].count,
                                          Len(callers[g].backends))]
    /\ picks' = Append(picks, [count |-> callers[g].count, backend |-> sel'])
    /\ callers' = [callers EXCEPT ![g] = IdleSelect]
    /\ UNCHANGED <<now, cbVars, poolVars, strategy, rrCounter, wrr,
                   healthVars, routerVars, retryVars, prober, body,
                   gauges, probed, getters>>

InitRR ==
    /\ now = 0
    /\ CBIdle
    /\ \E up \in SUBSET (1..Len(RRKeys)) :
          inst = [j \in 1..Len(RRKeys) |->
                    IF j \in up THEN NewBackend(RRKeys[j])
                    ELSE SetState(NewBackend(RRKeys[j]), "UNHEALTHY")]
    /\ pool = [j \in 1..Len(RRKeys) |-> j]
    /\ SelectIdle
    /\ HealthIdle
    /\ RouterIdle
    /\ RetryIdle
    /\ picks = << >>
    /\ callers = [g \in RRCallers |-> IdleSelect]
    /\ prober = NoProber
    /\ body = << >>
    /\ gauges = NoGauges /\ probed = << >> /\ getters = << >>

NextRR == \E g \in RRCallers : RRRead(g) \/ RRAdd(g) \/ RRReturn(g)

SpecRR == InitRR /\ [][NextRR]_vars

WeightedConfigs ==
    { <<Cfg("a", 3), Cfg("b", 2), Cfg("c", 1)>>,
      <<Cfg("a", 2), Cfg("b", 1)>>,
      <<Cfg("a", 1), Cfg("b", 1)>>,
      <<Cfg("a", 1), Cfg("b", 1), Cfg("c", 1)>>,
      <<Cfg("a", 2), Cfg("b", 2), Cfg("c", 1)>> }

WSelect ==
    /\ Len(picks) < MaxWeighted
    /\ SelectBackend
    /\ picks' = Append(picks, [count |-> Len(picks) + 1, backend |-> sel'])
    /\ UNCHANGED <<now, cbVars, poolVars, strategy, healthVars, routerVars,
                   retryVars, callers, prober, body,
                   gauges, probed, getters>>

InitWRR ==
    /\ now = 0
    /\ CBIdle
    /\ \E cfg \in WeightedConfigs :
          /\ inst = BackendsOf(cfg)
          /\ pool = [j \in 1..Len(cfg) |-> j]
    /\ strategy = "wrr"
    /\ rrCounter = 0
    /\ wrr = << >>
    /\ sel = 0
    /\ HealthIdle
    /\ RouterIdle
    /\ RetryIdle
    /\ ObsIdle

NextWRR == WSelect

SpecWRR == InitWRR /\ [][NextWRR]_vars

\* the sum of the weights of the pool's first j backends
RECURSIVE SumWeights(_)
SumWeights(j) == IF j = 0 THEN 0 ELSE inst[pool[j]].weight + SumWeights(j - 1)

\* the selections numbered a+1 .. a+n that chose backend b
ChosenIn(a, n, b) ==
    Cardinality({i \in (a + 1)..(a + n) : picks[i].backend = b})

\* C22: under smooth weighted round-robin with a fixed healthy set and
\* fixed weights, every window of (sum of weights) consecutive selections,
\* wherever it starts in the selection sequence, contains each backend
\* exactly configured_weight times.
C22_EveryWindowWeighted ==
    LET total == SumWeights(Len(pool)) IN
    \A a \in 0..(Len(picks) - total) : \A j \in 1..Len(pool) :
        ChosenIn(a, total, pool[j]) = inst[pool[j]].weight

\* the same for the windows that start at a multiple of the sum
C22_AlignedWindowsWeighted ==
    LET total == SumWeights(Len(pool)) IN
    \A a \in 0..(Len(picks) - total) : \A j \in 1..Len(pool) :
        a % total = 0 => ChosenIn(a, total, pool[j]) = inst[pool[j]].weight

\* ------- SpecLC: LeastConnectionsStrategy.SelectBackend over three backends
\* whose active counts and health states change between the calls
InitLC ==
    /\ now = 0
    /\ CBIdle
    /\ inst = [j \in 1..Len(RRKeys) |-> NewBackend(RRKeys[j])]
    /\ pool = [j \in 1..Len(RRKeys) |-> j]
    /\ strategy = "lc"
    /\ rrCounter = 0
    /\ wrr = << >>
    /\ sel = 0
    /\ HealthIdle
    /\ RouterIdle
    /\ RetryIdle
    /\ ObsIdle

NextLC == SSelect \/ SSetState \/ SIncrement \/ SDecrement

SpecLC == InitLC /\ [][NextLC]_vars

\* C23: least-connections returns a healthy backend whose active count is
\* minimal among the healthy subset and, when several share the minimum,
\* the first of them in pool order.
C23_LeastConnectionsFirstMinimum ==
    [][ (SSelect /\ strategy = "lc" /\ GetHealthyBackends # << >>) =>
          \E i \in 1..Len(pool) :
             /\ sel' = pool[i]
             /\ IsAlive(inst[sel'])
             /\ \A j \in 1..Len(pool) :
                   IsAlive(inst[pool[j]]) =>
                      /\ inst[pool[j]].active >= inst[sel'].active
                      /\ j < i => inst[pool[j]].active > inst[sel'].active
      ]_vars

\* the call returned the third backend although the first two are healthy:
\* both carry more than it does
C23_Witness ==
    /\ strategy = "lc"
    /\ sel = pool[3]
    /\ \A j \in 1..3 : IsAlive(inst[pool[j]])
    /\ inst[pool[1]].active > inst[pool[3]].active
    /\ inst[pool[2]].active > inst[pool[3]].active

\* ------- SpecHandlers: two health handlers at once on the same backend
\* A probe's checkBackend runs in a goroutine of its own and ServeHTTP calls
\* the passive tracker from the request's goroutine, so a handler's method
\* calls on the backend interleave with those of another handler.
Handlers == {1, 2}

InitHandlers ==
    /\ now = 0
    /\ CBIdle
    /\ SelectIdle
    /\ inst = <<NewBackend("b")>>
    /\ pool = <<1>>
    /\ installed = pool
    /\ hw = [w \in Handlers |-> IdleWorker]
    /\ rl = IdleReload
    /\ RouterIdle
    /\ RetryIdle
    /\ ObsIdle

NextHandlers ==
    \E w \in Handlers :
       WStart(w) \/ WRecord(w) \/ WReadMetrics(w) \/ WReadState(w)
                 \/ WDecide(w)

SpecHandlers == InitHandlers /\ [][NextHandlers]_vars

\* C24: PassiveTracker.RecordFailure moves the backend to UNHEALTHY exactly
\* when the backend is HEALTHY and its consecutive_failures is at or above
\* the configured threshold; in no interleaving with probes or other
\* requests does the tracker move a backend to UNHEALTHY while the backend's
\* consecutive_failures is below the threshold.
C24_PassiveMarksAtThreshold ==
    [][ \A w \in DOMAIN hw :
          (WDecide(w) /\ hw[w].kind = "passFail") =>
             LET b == hw[w].b
                 atThreshold ==
                    GetHealthMetrics(inst[b]).fail >= PassiveThreshold
             IN /\ (GetState(inst[b]) # "UNHEALTHY"
                      /\ GetState(inst'[b]) = "UNHEALTHY") => atThreshold
                /\ (GetState(inst[b]) = "HEALTHY" /\ atThreshold) =>
                      GetState(inst'[b]) = "UNHEALTHY"
      ]_vars

\* ------- SpecProbe: ActiveChecker.Start, checkBackend and the handlers
\* what ac.client.Get can return: an error, or a response with a status
ProbeStatuses == {200, 299, 300, 404, 503}
ProbeResults ==
    {[err |-> TRUE, status |-> 0]}
       \cup {[err |-> FALSE, status |-> c] : c \in ProbeStatuses}

\* the loop of Start runs checkAllBackends (at once, then at each tick),
\* which starts checkBackend in a goroutine of its own; a tick and ctx.Done
\* that are both ready are chosen between by the select
PTick(w) ==
    /\ ~prober.stopped
    /\ hw[w].pc = "idle"
    /\ \E b \in Range(GetBackends) :
          hw' = [hw EXCEPT ![w] = [IdleWorker EXCEPT
                    !.pc = "get", !.snap = GetBackends, !.b = b]]
    /\ UNCHANGED <<now, cbVars, poolVars, stratVars, rl, installed,
                   routerVars, retryVars, obsVars>>

\* resp, err := ac.client.Get(url) returns, and checkBackend calls
\* handleSuccess or handleFailure
PGet(w) ==
    /\ hw[w].pc = "get"
    /\ \E res \in ProbeResults :
          /\ prober' = [prober EXCEPT !.err = res.err, !.status = res.status]
          /\ hw' = [hw EXCEPT ![w].kind = ProbeKind(res.err, res.status),
                              ![w].pc = "record"]
    /\ UNCHANGED <<now, cbVars, poolVars, stratVars, rl, installed,
                   routerVars, retryVars, picks, callers, body,
                   gauges, probed, getters>>

\* main's cancel(): the prober's context is done
PCancel ==
    /\ ~prober.cancelled
    /\ prober' = [prober EXCEPT !.cancelled = TRUE]
    /\ UNCHANGED <<now, cbVars, poolVars, stratVars, healthVars, routerVars,
                   retryVars, picks, callers, body,
                   gauges, probed, getters>>

\* case <-ctx.Done(): return
PDone ==
    /\ prober.cancelled
    /\ ~prober.stopped
    /\ prober' = [prober EXCEPT !.stopped = TRUE]
    /\ UNCHANGED <<now, cbVars, poolVars, stratVars, healthVars, routerVars,
                   retryVars, picks, callers, body,
                   gauges, probed, getters>>

InitProbe ==
    /\ now = 0
    /\ CBIdle
    /\ SelectIdle
    /\ \E s \in HealthStates : inst = <<SetState(NewBackend("b"), s)>>
    /\ pool = <<1>>
    /\ installed = pool
    /\ hw = [w \in Workers |-> IdleWorker]
    /\ rl = IdleReload
    /\ RouterIdle
    /\ RetryIdle
    /\ ObsIdle

NextProbe ==
    \/ \E w \in Workers :
          PTick(w) \/ PGet(w) \/ WRecord(w) \/ WReadMetrics(w)
                   \/ WReadState(w) \/ WDecide(w)
    \/ PCancel \/ PDone

SpecProbe == InitProbe /\ [][NextProbe]_vars

C26_NoResultAfterCancel ==
    [][ prober.cancelled => inst' = inst ]_vars

\* ------- SpecStatus: ServeHTTP over the upstream statuses on both sides of
\* 500, from pools that have served requests before
UpstreamStatuses == {200, 404, 499, 500, 503}

\* what a backend has been through before: nothing, or requests that failed
\* one short of the passive tracker's threshold
Pasts == {0, PassiveThreshold - 1}

RECURSIVE PassiveFailed(_, _)
PassiveFailed(b, n) ==
    IF n = 0 THEN b ELSE PassiveFailed(PassiveRecordFailure(b), n - 1)

\* the first backend's breaker: not created yet, or OPEN after
\* failure_threshold failures in one window (the backend having been marked
\* HEALTHY again by the prober since)
InitStatus ==
    /\ now = 0
    /\ \E cfg \in Configs, past \in [1..2 -> Pasts] :
          /\ inst = [j \in 1..Len(cfg) |->
                       PassiveFailed(BackendsOf(cfg)[j], past[j])]
          /\ pool = [j \in 1..Len(cfg) |-> j]
    /\ cbs \in {<< >>,
                inst[1].key :>
                   FailedTimes(NewCircuitBreaker, CBFailureThreshold, now)}
    /\ cbRet = TRUE
    /\ failLog = <<>>
    /\ hoSucc = 0
    /\ strategy \in Strategies
    /\ rrCounter = 0
    /\ wrr = << >>
    /\ sel = 0
    /\ HealthIdle
    /\ RetryIdle
    /\ ObsIdle
    /\ req = [r \in Reqs |-> NewRequest(ReqMethod[r])]
    /\ retryPolicy = NewPolicy(PolicyMaxAttempts, BudgetPercent, now)
    /\ retriesTotal = [circuit_open |-> 0, server_error |-> 0]

NextStatus ==
    \E r \in Reqs :
       \/ ServeBegin(r) \/ ServeSelect(r) \/ ServeAdmit(r)
       \/ ServeIncrement(r) \/ ServeForwardWith(r, UpstreamStatuses)
       \/ ServeDecrement(r) \/ ServeRecord(r)

SpecStatus == InitStatus /\ [][NextStatus]_vars

\* C27: when the healthy subset is empty as an attempt selects a backend,
\* the client is answered 503, nothing is forwarded upstream and no active
\* count, breaker or health counter changes; when the selected backend's
\* breaker refuses admission on the last attempt of the loop, the client is
\* answered 503.
C27_Unavailable503 ==
    [][ \A r \in Reqs :
          /\ (ServeSelect(r) /\ ~req[r].cancelled
                /\ GetHealthyBackends = << >>) =>
                /\ Finished(req'[r])
                /\ ClientStatus(req'[r]) = 503
                /\ req'[r].up = req[r].up
                /\ inst' = inst
                /\ cbs' = cbs
          /\ (ServeAdmit(r) /\ ~cbRet'
                /\ req[r].attempt = ServeMaxAttempts) =>
                /\ Finished(req'[r])
                /\ ClientStatus(req'[r]) = 503
      ]_vars

\* the same, the answer being what the router writes in that step (whether
\* or not an earlier attempt's response has reached the client before)
C27_Unavailable503Written ==
    [][ \A r \in Reqs :
          LET last == req'[r].wrote[Len(req'[r].wrote)] IN
          /\ (ServeSelect(r) /\ ~req[r].cancelled
                /\ GetHealthyBackends = << >>) =>
                /\ Finished(req'[r])
                /\ Len(req'[r].wrote) = Len(req[r].wrote) + 1
                /\ last = [by |-> "router", code |-> 503]
                /\ req'[r].up = req[r].up
                /\ inst' = inst
                /\ cbs' = cbs
          /\ (ServeAdmit(r) /\ ~cbRet'
                /\ req[r].attempt = ServeMaxAttempts) =>
                /\ Finished(req'[r])
                /\ Len(req'[r].wrote) = Len(req[r].wrote) + 1
                /\ last = [by |-> "router", code |-> 503]
      ]_vars

\* what ServeHTTP does with the status of the attempt it is recording: the
\* passive tracker's and the breaker's view of the attempted backend before
\* and after
RecordedAsStated(r) ==
    LET q == req[r]
        code == q.up[Len(q.up)]
        b == q.b
        ob == BreakerOf(b)
        nb == cbs'[inst[b].key]
    IN IF code >= 500
       THEN /\ GetHealthMetrics(inst'[b]).fail
                  = GetHealthMetrics(inst[b]).fail + 1
            /\ nb.lastFailTime = now
            /\ Len(nb.recentFailures) = Len(ob.recentFailures) + 1
       ELSE /\ GetHealthMetrics(inst'[b]).fail = 0
            /\ GetState(inst'[b]) = GetState(inst[b])
            /\ nb.successes = ob.successes + 1
            /\ nb.recentFailures = ob.recentFailures
            /\ nb.lastFailTime = ob.lastFailTime
            /\ nb.state = ob.state
            /\ Finished(req'[r])
            /\ retriesTotal' = retriesTotal

\* C28: for every forwarded attempt, an upstream status of 500 or more is
\* recorded as a failure in the passive tracker and in the attempted
\* backend's breaker, and a status below 500 (every 4xx included) is
\* recorded as a success in both, ends the request and is neither retried
\* nor counted as a failure of the backend.
C28_StatusRecorded ==
    /\ [](\A r \in Reqs :
             Finished(req[r]) => req[r].decs = Len(req[r].up))
    /\ [][ \A r \in Reqs : ServeRecord(r) => RecordedAsStated(r) ]_vars

\* the same for the attempts whose forwarding call returned
C28_ReturnedStatusRecorded ==
    [][ \A r \in Reqs : ServeRecord(r) => RecordedAsStated(r) ]_vars

\* ------- SpecBody: the request body through ServeHTTP's attempts
\* A []byte is a sequence of byte values, nil being told apart from the
\* empty slice; a reader is the bytes it reads from and the number of them
\* already read.
NilBytes == <<-1>>

RECURSIVE BytesOfLen(_)
BytesOfLen(n) ==
    IF n = 0 THEN {<< >>}
    ELSE {Append(bs, x) : bs \in BytesOfLen(n - 1), x \in 0..1}

\* the bodies a client sends, the empty one included
Bodies == UNION {BytesOfLen(n) : n \in 0..MaxBody}

\* bytes.NewBuffer(bodyBytes) inside io.NopCloser
NewBuffer(bytes) == [data |-> bytes, pos |-> 0]

\* a nil req.Body
NilBody == NewBuffer(NilBytes)

\* io.ReadAll(rd): what is left to read, as a slice that is never nil
ReadAll(rd) == SubSeq(rd.data, rd.pos + 1, Len(rd.data))

\* the reader after n more bytes have been read from it
Advance(rd, n) == [rd EXCEPT !.pos = @ + n]

\* retry.BufferRequestBody(req): the bytes returned and req.Body afterwards
BufferRequestBody(rd) ==
    IF rd = NilBody THEN [bytes |-> NilBytes, Body |-> rd]
    ELSE [bytes |-> ReadAll(rd), Body |-> Advance(rd, Len(ReadAll(rd)))]

\* retry.RestoreRequestBody(req, bodyBytes): req.Body afterwards
RestoreRequestBody(rd, bodyBytes) ==
    IF bodyBytes # NilBytes THEN NewBuffer(bodyBytes) ELSE rd

\* a plausible slip: the body is left as the attempt before left it
KeepBody(rd, bodyBytes, attempt) == rd

\* ServeHTTP before the forwarding call: r.Body for this attempt
RestoreBody(rd, bodyBytes, attempt) ==
    IF bodyBytes # NilBytes /\ attempt > 1 THEN NewBuffer(bodyBytes) ELSE rd

\* ServeHTTP up to the loop: with a retry policy the body is read whole and
\* r.Body replaced by a reader over the bytes read (a failing read ends the
\* request with 400); maxAttempts is 3 with a policy, 1 without
BBegin == \E readFails \in BOOLEAN :
    /\ body.pc = "new"
    /\ IF body.retry /\ body.Body # NilBody
       THEN IF readFails
            THEN body' = [body EXCEPT !.pc = "done"]
            ELSE body' = [body EXCEPT
                            !.pc = "loop", !.attempt = 1,
                            !.bodyBytes = ReadAll(body.Body),
                            !.Body = NewBuffer(ReadAll(body.Body))]
       ELSE body' = [body EXCEPT !.pc = "loop", !.attempt = 1]
    /\ UNCHANGED <<now, cbVars, poolVars, stratVars, healthVars, routerVars,
                   retryVars, picks, callers, prober,
                   gauges, probed, getters>>

\* one turn of the loop: the attempt ends the request before forwarding
\* (cancelled, no backend), or is refused by the breaker and the loop goes
\* on, or is forwarded: the proxy is given r.Body, reads some or all of it,
\* and ServeHTTP returns or goes on to the next attempt
BAttempt == \E way \in {"end", "refused", "forwarded"}, again \in BOOLEAN :
    LET maxAttempts == IF body.retry THEN ServeMaxAttempts ELSE 1
        next == IF again /\ body.attempt < maxAttempts
                THEN [body EXCEPT !.attempt = @ + 1]
                ELSE [body EXCEPT !.pc = "done"]
        rd == RestoreBody(body.Body, body.bodyBytes, body.attempt)
    IN
    /\ body.pc = "loop"
    /\ CASE way = "end" -> body' = [body EXCEPT !.pc = "done"]
         [] way = "refused" ->
               body' = IF body.attempt < maxAttempts
                       THEN [body EXCEPT !.attempt = @ + 1]
                       ELSE [body EXCEPT !.pc = "done"]
         [] way = "forwarded" ->
               \E n \in 0..Len(ReadAll(rd)) :
                  body' = [next EXCEPT
                             !.Body = Advance(rd, n),
                             !.given = Append(@, ReadAll(rd))]
    /\ UNCHANGED <<now, cbVars, poolVars, stratVars, healthVars, routerVars,
                   retryVars, picks, callers, prober,
                   gauges, probed, getters>>

InitBody ==
    /\ now = 0
    /\ CBIdle
    /\ PoolIdle
    /\ SelectIdle
    /\ HealthIdle
    /\ RouterIdle
    /\ RetryIdle
    /\ picks = << >>
    /\ callers = << >>
    /\ prober = NoProber
    /\ gauges = NoGauges /\ probed = << >> /\ getters = << >>
    /\ \E sent \in Bodies \cup {NilBytes}, retry \in BOOLEAN :
          body = [pc |-> "new", retry |-> retry, client |-> sent,
                  Body |-> NewBuffer(sent), bodyBytes |-> NilBytes,
                  attempt |-> 0, given |-> << >>]

NextBody == BBegin \/ BAttempt

SpecBody == InitBody /\ [][NextBody]_vars

\* C29: when a retry policy is configured and the request has a body,
\* every upstream attempt of the request, the first and each retry, is
\* given a body equal byte for byte to the one the client sent; and
\* RestoreRequestBody after BufferRequestBody gives a body that reads as
\* the original did.
C29_BodyRoundTrip ==
    (body.retry /\ body.client # NilBytes) =>
       /\ \A i \in 1..Len(body.given) : body.given[i] = body.client
       /\ LET buffered == BufferRequestBody(NewBuffer(body.client)) IN
          /\ buffered.bytes = body.client
          /\ ReadAll(buffered.Body) = << >>
          /\ ReadAll(RestoreRequestBody(buffered.Body, buffered.bytes))
                = body.client

\* a two-byte body has been forwarded three times and the proxy has read
\* it whole in the last attempt
C29_Witness ==
    /\ body.retry
    /\ Len(body.client) = MaxBody
    /\ Len(body.given) = ServeMaxAttempts
    /\ body.given[ServeMaxAttempts] = body.client
    /\ ReadAll(body.Body) = << >>
    /\ body.pc = "done"

\* ---- SpecExport: the metrics exporter beside the health checkers, the
\* requests and the retries that change what it exports
\* HealthState as an integer: the constants in their iota order
HealthStateValue(s) ==
    CASE s = "HEALTHY" -> 0
      [] s = "UNHEALTHY" -> 1
      [] s = "DRAINING" -> 2
      [] s = "DOWN" -> 3

\* the encoding the gauge's help text gives
BackendStateHelp(s) ==
    CASE s = "DOWN" -> 0
      [] s = "UNHEALTHY" -> 1
      [] s = "DRAINING" -> 2
      [] s = "HEALTHY" -> 3

\* GaugeVec.WithLabelValues(label).Set(v)
GaugeSet(vec, label, v) ==
    [k \in DOMAIN vec \cup {label} |-> IF k = label THEN v ELSE vec[k]]

\* the loop of export over the snapshot bs, from its i-th backend on
RECURSIVE ExportBackends(_, _, _)
ExportBackends(g, bs, i) ==
    IF i > Len(bs) THEN g
    ELSE LET b == inst[bs[i]] IN
         ExportBackends(
            [g EXCEPT !.state = GaugeSet(@, b.key,
                                         HealthStateValue(GetState(b))),
                      !.connections = GaugeSet(@, b.key,
                                               GetActiveRequests(b))],
            bs, i + 1)

\* Exporter.export, on a tick of its ticker
Export ==
    LET bd == GetAvailable(retryPolicy.budget, now) IN
    /\ gauges' = [ExportBackends(gauges, GetBackends, 1)
                     EXCEPT !.tokens = bd.tokens]
    /\ retryPolicy' = [retryPolicy EXCEPT !.budget = bd]
    /\ UNCHANGED <<now, cbVars, poolVars, stratVars, healthVars, req,
                   retriesTotal, retryVars, picks, callers, prober, body,
                   probed, getters>>

\* a health checker or an operator moves a backend to another state
ESetState == \E i \in Range(pool), s \in HealthStates :
    /\ inst' = [inst EXCEPT ![i] = SetState(@, s)]
    /\ UNCHANGED <<now, cbVars, pool, stratVars, healthVars, retryVars,
                   routerVars, obsVars>>

\* a request starts on a backend, or ends on it
EIncrement == \E i \in Range(pool) :
    /\ inst[i].active < MaxActive
    /\ inst' = [inst EXCEPT ![i] = IncrementActiveRequests(@)]
    /\ UNCHANGED <<now, cbVars, pool, stratVars, healthVars, retryVars,
                   routerVars, obsVars>>

EDecrement == \E i \in Range(pool) :
    /\ inst[i].active > 0
    /\ inst' = [inst EXCEPT ![i] = DecrementActiveRequests(@)]
    /\ UNCHANGED <<now, cbVars, pool, stratVars, healthVars, retryVars,
                   routerVars, obsVars>>

\* a retry takes a token of the budget
ETryConsume ==
    LET c == TryConsume(retryPolicy.budget, now) IN
    /\ retryPolicy.budget.maxTokens - retryPolicy.budget.tokens < MaxRate
    /\ retryPolicy' = [retryPolicy EXCEPT !.budget = c.budget]
    /\ UNCHANGED <<now, cbVars, poolVars, stratVars, healthVars, req,
                   retriesTotal, retryVars, obsVars>>

InitExport ==
    /\ now = 0
    /\ CBIdle
    /\ \E cfg \in Configs :
          /\ inst = BackendsOf(cfg)
          /\ pool = [j \in 1..Len(cfg) |-> j]
    /\ SelectIdle
    /\ HealthIdle
    /\ RetryIdle
    /\ ObsIdle
    /\ RouterIdle

NextExport == Export \/ ESetState \/ EIncrement \/ EDecrement \/ ETryConsume

SpecExport == InitExport /\ [][NextExport]_vars

\* C30: whenever the exporter sets the backend_state gauge of a backend of
\* the pool, the value it sets encodes the backend's health state as
\* DOWN=0, UNHEALTHY=1, DRAINING=2, HEALTHY=3.
C30_BackendStateEncoding ==
    [][ Export =>
          \A i \in Range(pool) :
             gauges'.state[inst[i].key] = BackendStateHelp(GetState(inst[i]))
      ]_vars

\* what does hold: the gauge is set to the state's own integer value, which
\* agrees with the help text for UNHEALTHY and DRAINING only
C30_BackendStateOrdinal ==
    [][ Export =>
          \A i \in Range(pool) :
             /\ gauges'.state[inst[i].key] = HealthStateValue(GetState(inst[i]))
             /\ GetState(inst[i]) \in {"UNHEALTHY", "DRAINING"} =>
                   gauges'.state[inst[i].key]
                      = BackendStateHelp(GetState(inst[i]))
      ]_vars

\* ServeHTTP has called TrackRequest for this request: it has got past the
\* buffering of the body
Tracked(q) ==
    /\ q.pc # "new"
    /\ ~(q.wrote # <<>> /\ q.wrote[1] = [by |-> "router", code |-> 400])

\* C31: the budget's request counter advances by exactly one per client
\* request, on its first attempt, however many retries are evaluated or
\* performed for it: with the clock standing still (no refill zeroes the
\* counter) it equals the number of requests that have started.
C31_TrackedOncePerRequest ==
    retryPolicy.budget.requestCounter
       = Cardinality({r \in Reqs : Tracked(req[r])})

\* what does hold: ServeHTTP itself tracks a request once, as it starts
C31_TrackedOnceByServeHTTP ==
    [][ \A r \in Reqs :
           /\ (ServeBegin(r) /\ Tracked(req'[r])) =>
                 retryPolicy'.budget.requestCounter
                    = retryPolicy.budget.requestCounter + 1
           /\ (ServeSelect(r) \/ ServeAdmit(r) \/ ServeIncrement(r)
                  \/ ServeForward(r) \/ ServeDecrement(r)) =>
                 retryPolicy'.budget = retryPolicy.budget
      ]_vars

\* C32: when the breaker rejects an attempt, the step of ServeHTTP that
\* asked it leaves every backend's active count, health counters and
\* health state, the breaker's failure window and state, and the retry
\* budget unchanged.
C32_RejectionChangesNothing ==
    [][ \A r \in Reqs :
           (ServeAdmit(r) /\ ~cbRet') =>
              /\ inst' = inst
              /\ cbs'[inst[req[r].b].key] = BreakerOf(req[r].b)
              /\ \A k \in DOMAIN cbs : cbs'[k] = cbs[k]
              /\ retryPolicy'.budget = retryPolicy.budget
      ]_vars

\* a request has been refused by the OPEN breaker of the first backend and
\* is at the head of its second attempt
C32_Witness ==
    \E r \in Reqs :
       /\ req[r].pc = "loop"
       /\ req[r].attempt = 2
       /\ retriesTotal.circuit_open > 0
       /\ ~cbRet
       /\ cbs[inst[1].key].state = "OPEN"

handleSuccess(b) ==
    LET b1 == RecordHealthCheckSuccess(b)
        s == Decision("probeOK", GetHealthMetrics(b1), GetState(b1)) IN
    IF s # "" THEN SetState(b1, s) ELSE b1

handleFailure(b) ==
    LET b1 == RecordHealthCheckFailure(b)
        s == Decision("probeFail", GetHealthMetrics(b1), GetState(b1)) IN
    IF s # "" THEN SetState(b1, s) ELSE b1

\* a probe of the backend succeeds
HProbeSuccess(i) ==
    /\ inst[i].succ < MaxCount
    /\ inst' = [inst EXCEPT ![i] = handleSuccess(@)]
    /\ probed' = [probed EXCEPT ![i] = @ + 1]
    /\ UNCHANGED <<now, cbVars, pool, stratVars, healthVars, routerVars,
                   retryVars, picks, callers, prober, body, gauges, getters>>

\* a probe of the backend fails
HProbeFailure(i) ==
    /\ inst[i].fail < MaxCount
    /\ inst' = [inst EXCEPT ![i] = handleFailure(@)]
    /\ probed' = [probed EXCEPT ![i] = 0]
    /\ UNCHANGED <<now, cbVars, pool, stratVars, healthVars, routerVars,
                   retryVars, picks, callers, prober, body, gauges, getters>>

\* a request forwarded to the backend ends well: the backend was in the
\* healthy subset when the request selected it, whatever it is now
HRequestSuccess(i) ==
    /\ inst[i].succ < MaxCount
    /\ inst' = [inst EXCEPT ![i] = PassiveRecordSuccess(@)]
    /\ UNCHANGED <<now, cbVars, pool, stratVars, healthVars, routerVars,
                   retryVars, obsVars>>

\* a request forwarded to the backend fails
HRequestFailure(i) ==
    /\ inst[i].fail < MaxCount
    /\ inst' = [inst EXCEPT ![i] = PassiveRecordFailure(@)]
    /\ probed' = [probed EXCEPT ![i] = 0]
    /\ UNCHANGED <<now, cbVars, pool, stratVars, healthVars, routerVars,
                   retryVars, picks, callers, prober, body, gauges, getters>>

InitHeal ==
    /\ now = 0
    /\ CBIdle
    /\ \E cfg \in {c \in Configs : Len(c) = 2} :
          /\ inst = BackendsOf(cfg)
          /\ pool = [j \in 1..Len(cfg) |-> j]
    /\ SelectIdle
    /\ HealthIdle
    /\ RouterIdle
    /\ RetryIdle
    /\ picks = << >> /\ callers = << >> /\ prober = NoProber
    /\ body = << >> /\ gauges = NoGauges /\ getters = << >>
    /\ probed = [i \in DOMAIN inst |-> 0]

\* the two backends of the pool
Healed == {1, 2}

NextHeal ==
    \E i \in Healed :
       \/ HProbeSuccess(i) \/ HProbeFailure(i)
       \/ HRequestSuccess(i) \/ HRequestFailure(i)

SpecHeal == InitHeal /\ [][NextHeal]_vars

\* C34: a backend in a state other than HEALTHY becomes HEALTHY only after
\* at least healthy_threshold consecutive successful active health checks
\* of it have completed since the last failure recorded against it.
C34_HealsAfterThresholdChecks ==
    [][ \A i \in DOMAIN inst :
           (GetState(inst[i]) # "HEALTHY" /\ GetState(inst'[i]) = "HEALTHY")
              => probed'[i] >= HealthyThreshold
      ]_vars

\* what does hold: a backend is healed by a successful probe that finds the
\* success counter at the threshold
C34_HealsAtCounterThreshold ==
    [][ \A i \in DOMAIN inst :
           (GetState(inst[i]) # "HEALTHY" /\ GetState(inst'[i]) = "HEALTHY")
              => /\ HProbeSuccess(i)
                 /\ GetHealthMetrics(inst'[i]).succ >= HealthyThreshold
      ]_vars

\* the pool holds a backend other than b whose weight is at least b's
HasPeer(b) ==
    \E j \in Range(pool) : j # b /\ inst[j].weight >= inst[b].weight

\* C35: smooth weighted round-robin over a fixed healthy set never returns
\* the same backend three or more times in a row while the healthy set
\* contains another backend of equal or greater weight.
C35_NoThreeInARow ==
    \A i \in 1..(Len(picks) - 2) :
       (/\ picks[i].backend = picks[i + 1].backend
        /\ picks[i].backend = picks[i + 2].backend)
          => ~HasPeer(picks[i].backend)

\* all the selections have been made, and a backend that has a peer of its
\* weight or more was returned twice in a row
C35_Witness ==
    /\ Len(picks) = MaxWeighted
    /\ \E i \in 1..(Len(picks) - 1) :
          /\ picks[i].backend = picks[i + 1].backend
          /\ HasPeer(picks[i].backend)

\* ---- SpecBreakers: goroutines inside Balancer.getCircuitBreaker, the
\* breakers in use, the pool reloaded in between
\* CircuitBreaker objects are told apart by their place in getters.made;
\* getters.ids is lb.circuitBreakers, getters.lock the holder of cbMux's
\* write lock (0: nobody)
Getters == {1, 2}

IdleGetter == [pc |-> "idle", key |-> "", cb |-> 0, via |-> ""]

NoGetters ==
    [lock |-> 0, ids |-> [k \in {} |-> 0], made |-> << >>,
     at |-> [g \in Getters |-> IdleGetter]]

\* a plausible slip: the map is not looked at again under the write lock
NoDoubleCheck(ids, key) == FALSE

\* if cb, exists := lb.circuitBreakers[key]; exists
DoubleCheck(ids, key) == key \in DOMAIN ids

\* ServeHTTP has selected a backend and calls getCircuitBreaker(backend)
GEnter(g) == \E i \in Range(pool) :
    /\ getters.at[g].pc = "idle"
    /\ getters' = [getters EXCEPT
                     !.at[g] = [IdleGetter EXCEPT !.pc = "read",
                                                  !.key = inst[i].key]]
    /\ UNCHANGED <<now, cbVars, poolVars, stratVars, healthVars, routerVars,
                   retryVars, picks, callers, prober, body, gauges, probed>>

\* the lookup under the read lock; a hit returns
GRead(g) ==
    LET me == getters.at[g] IN
    /\ me.pc = "read"
    /\ getters.lock = 0
    /\ getters' = [getters EXCEPT !.at[g] =
                     IF me.key \in DOMAIN getters.ids
                     THEN [me EXCEPT !.pc = "done", !.via = "read",
                                     !.cb = getters.ids[me.key]]
                     ELSE [me EXCEPT !.pc = "lock"]]
    /\ UNCHANGED <<now, cbVars, poolVars, stratVars, healthVars, routerVars,
                   retryVars, picks, callers, prober, body, gauges, probed>>

\* lb.cbMux.Lock()
GLock(g) ==
    /\ getters.at[g].pc = "lock"
    /\ getters.lock = 0
    /\ getters' = [getters EXCEPT !.lock = g, !.at[g].pc = "check"]
    /\ UNCHANGED <<now, cbVars, poolVars, stratVars, healthVars, routerVars,
                   retryVars, picks, callers, prober, body, gauges, probed>>

\* under the write lock: the second lookup, then NewCircuitBreaker and the
\* insertion; the deferred Unlock runs as the call returns
GCheck(g) ==
    LET me == getters.at[g]
        n == Len(getters.made) + 1 IN
    /\ me.pc = "check"
    /\ getters' =
          IF DoubleCheck(getters.ids, me.key)
          THEN [getters EXCEPT
                  !.lock = 0,
                  !.at[g] = [me EXCEPT !.pc = "done", !.via = "check",
                                       !.cb = getters.ids[me.key]]]
          ELSE [getters EXCEPT
                  !.lock = 0,
                  !.made = Append(@, [key |-> me.key,
                                      cb |-> NewCircuitBreaker]),
                  !.ids = [k \in DOMAIN @ \cup {me.key} |->
                              IF k = me.key THEN n ELSE @[k]],
                  !.at[g] = [me EXCEPT !.pc = "done", !.via = "new",
                                       !.cb = n]]
    /\ UNCHANGED <<now, cbVars, poolVars, stratVars, healthVars, routerVars,
                   retryVars, picks, callers, prober, body, gauges, probed>>

\* the attempt fails and ServeHTTP calls cb.RecordFailure() on the breaker
\* it was given, or it ends otherwise; ServeHTTP moves on
GUse(g) == \E failed \in BOOLEAN :
    LET me == getters.at[g] IN
    /\ me.pc = "done"
    /\ getters' =
          IF failed /\ Len(getters.made[me.cb].cb.recentFailures)
                          < CBFailureThreshold
          THEN [getters EXCEPT
                  !.made[me.cb].cb = RecordFailure(@, now),
                  !.at[g] = IdleGetter]
          ELSE [getters EXCEPT !.at[g] = IdleGetter]
    /\ UNCHANGED <<now, cbVars, poolVars, stratVars, healthVars, routerVars,
                   retryVars, picks, callers, prober, body, gauges, probed>>

InitBreakers ==
    /\ now = 0
    /\ CBIdle
    /\ \E cfg \in Configs :
          /\ inst = BackendsOf(cfg)
          /\ pool = [j \in 1..Len(cfg) |-> j]
    /\ SelectIdle
    /\ HealthIdle
    /\ RouterIdle
    /\ RetryIdle
    /\ picks = << >> /\ callers = << >> /\ prober = NoProber
    /\ body = << >> /\ gauges = NoGauges /\ probed = << >>
    /\ getters = NoGetters

NextBreakers ==
    \/ \E g \in Getters :
          GEnter(g) \/ GRead(g) \/ GLock(g) \/ GCheck(g) \/ GUse(g)
    \/ ServeReload

SpecBreakers == InitBreakers /\ [][NextBreakers]_vars

\* C36: for each backend key at most one circuit breaker is ever made,
\* goroutines that ask for the same key at the same time are given the same
\* breaker, and a key's breaker, with its state and failure window, stays
\* the key's breaker across pool reloads.
C36_OneBreakerPerKey ==
    /\ [](/\ \A i, j \in DOMAIN getters.made :
                getters.made[i].key = getters.made[j].key => i = j
          /\ \A g, h \in Getters :
                (/\ getters.at[g].pc = "done"
                 /\ getters.at[h].pc = "done"
                 /\ getters.at[g].key = getters.at[h].key)
                   => getters.at[g].cb = getters.at[h].cb
          /\ \A g \in Getters :
                getters.at[g].pc = "done" =>
                   /\ getters.at[g].key \in DOMAIN getters.ids
                   /\ getters.ids[getters.at[g].key] = getters.at[g].cb)
    /\ [][ /\ \A k \in DOMAIN getters.ids :
                /\ k \in DOMAIN getters'.ids
                /\ getters'.ids[k] = getters.ids[k]
           /\ ServeReload => getters' = getters
         ]_vars

\* two goroutines asked for the same key's first breaker at the same time:
\* one made it, the other found it under the write lock; the pool has been
\* reloaded on the way
C36_Witness ==
    /\ getters.at[1].pc = "done"
    /\ getters.at[2].pc = "done"
    /\ getters.at[1].key = getters.at[2].key
    /\ {getters.at[1].via, getters.at[2].via} = {"new", "check"}
    /\ Len(inst) > Len(pool)

\* C37: in every reachable state of a backend at most one of
\* consecutive_successes and consecutive_failures is non-zero, whether the
\* records come from the prober or from the passive tracker, and also for
\* the backends ReplaceBackends fills in and installs.
C37_OneCounterNonZero ==
    \A i \in DOMAIN inst :
       GetHealthMetrics(inst[i]).succ = 0 \/ GetHealthMetrics(inst[i]).fail = 0

\* a reload has installed a backend with the failures its predecessor had,
\* and the predecessor has recorded a success since
C37_Witness ==
    /\ rl.pc = "idle"
    /\ \E i \in Range(pool) : \E j \in DOMAIN inst :
          /\ j < i
          /\ inst[j].key = inst[i].key
          /\ GetHealthMetrics(inst[i]).fail > 0
          /\ GetHealthMetrics(inst[j]).succ > 0

\* ---- SpecTokens: the goroutines of SpecRefill on a budget that is down
\* to its last token
InitTokens ==
    /\ now = 0
    /\ CBIdle
    /\ PoolIdle
    /\ SelectIdle
    /\ ObsIdle
    /\ HealthIdle
    /\ req = << >>
    /\ retryPolicy =
          [NewPolicy(ServeMaxAttempts, RetryPercent, now)
              EXCEPT !.budget.tokens = 1]
    /\ retriesTotal = [circuit_open |-> 0, server_error |-> 0]
    /\ call = NoCall
    /\ bg = [calls |-> 0, at |-> [g \in Goroutines |-> IdleCaller]]
    /\ tally = << >>

SpecTokens == InitTokens /\ [][NextRefill]_vars

\* C38: under any interleaving of TryConsume, TrackRequest, GetAvailable
\* and refills the budget's tokens are never negative; the step by which a
\* TryConsume call returns true takes exactly one token, and the steps by
\* which it returns false or goes round its loop again leave the tokens as
\* they are, so that two calls that both loaded the last token cannot both
\* take it.
C38_TokensNeverNegative ==
    /\ [](retryPolicy.budget.tokens >= 0)
    /\ [][ \A g \in Goroutines :
              /\ RTake(g) =>
                    retryPolicy'.budget.tokens =
                       IF bg'.at[g].pc = "idle"
                       THEN retryPolicy.budget.tokens - 1
                       ELSE retryPolicy.budget.tokens
              /\ RLoad(g) =>
                    retryPolicy'.budget.tokens = retryPolicy.budget.tokens
         ]_vars

\* a goroutine holds the last token as loaded while the other goroutine has
\* taken it: its compare-and-swap is about to fail
C38_Witness ==
    \E g \in Goroutines :
       /\ bg.at[g].pc = "take"
       /\ bg.at[g].current = 1
       /\ retryPolicy.budget.tokens = 0

\* ---- SpecTerm: one ServeHTTP call from start to end, under each
\* strategy, policy limit, budget state and set of OPEN breakers
\* the request served
Served == {1}

InitTerm ==
    /\ now = 0
    /\ \E cfg \in Configs :
          /\ inst = BackendsOf(cfg)
          /\ pool = [j \in 1..Len(cfg) |-> j]
    /\ \E open \in SUBSET {inst[i].key : i \in DOMAIN inst} :
          cbs = [k \in open |->
                    FailedTimes(NewCircuitBreaker, CBFailureThreshold, now)]
    /\ cbRet = TRUE
    /\ failLog = <<>>
    /\ hoSucc = 0
    /\ strategy \in Strategies
    /\ rrCounter = 0
    /\ wrr = << >>
    /\ sel = 0
    /\ HealthIdle
    /\ RetryIdle
    /\ ObsIdle
    /\ \E method \in {"GET", "POST"} :
          req = [r \in Served |-> NewRequest(method)]
    /\ \E limit \in PolicyLimits, spent \in BOOLEAN :
          retryPolicy =
             [NewPolicy(limit, BudgetPercent, now) EXCEPT
                 !.budget.tokens = IF spent THEN 0 ELSE @]
    /\ retriesTotal = [circuit_open |-> 0, server_error |-> 0]

NextTerm ==
    \E r \in Served :
       \/ ServeBegin(r) \/ ServeSelect(r) \/ ServeAdmit(r)
       \/ ServeIncrement(r) \/ ServeForward(r) \/ ServeDecrement(r)
       \/ ServeRecord(r) \/ ServeCancel(r)

SpecTerm == InitTerm /\ [][NextTerm]_vars

\* the goroutine running ServeHTTP is scheduled, and each forwarding call
\* comes back
SpecTermFair == SpecTerm /\ WF_vars(NextTerm)

\* C39: every ServeHTTP call ends, after at most 3 turns of its loop and at
\* most 3 upstream forwards, whatever the strategy, the breakers' states,
\* the budget's state and the policy's max_attempts.
C39_ServeTerminates ==
    /\ [](\A r \in Served :
             /\ req[r].attempt <= ServeMaxAttempts
             /\ Len(req[r].up) <= ServeMaxAttempts)
    /\ <>(\A r \in Served : Finished(req[r]))

\* a GET under a policy of max_attempts 4 has ended after three forwards
\* that were all answered 503
C39_Witness ==
    \E r \in Served :
       /\ req[r].pc = "done"
       /\ req[r].up = <<503, 503, 503>>
       /\ retryPolicy.maxAttempts = 4

\* ------ SpecLive: the prober's rounds, one checkBackend per backend
\* checkAllBackends starts a goroutine per backend of the pool: goroutine w
\* probes backend w; a third goroutine is a request handler reporting to the
\* passive tracker
Probed == {1}
Reporters == {3}
Live == Probed \cup Reporters

FailKinds == {"probeFail", "passFail"}

\* the counters are kept up to MaxCount: the code compares them with the
\* thresholds and with 0 only, and no threshold is above MaxCount
Saturated(b) ==
    [b EXCEPT !.succ = IF @ > MaxCount THEN MaxCount ELSE @,
              !.fail = IF @ > MaxCount THEN MaxCount ELSE @]

\* go ac.checkBackend(b), for each backend of the snapshot
LCheck(w) == PTick(w) /\ hw'[w].b = w

\* ac.client.Get returns: here with status 200, or with an error
LGet(w) == PGet(w) /\ (prober'.err \/ prober'.status = 200)

\* a request on a backend of the healthy subset ended and ServeHTTP reports
\* it to the passive tracker
LReport(w) == WStart(w) /\ hw'[w].kind \in {"passOK", "passFail"}

\* b.RecordHealthCheckSuccess() / b.RecordHealthCheckFailure()
LRecord(w) ==
    /\ hw[w].pc = "record"
    /\ inst' = [inst EXCEPT ![hw[w].b] =
                   Saturated(IF hw[w].kind = "probeOK"
                             THEN RecordHealthCheckSuccess(@)
                             ELSE RecordHealthCheckFailure(@))]
    /\ hw' = [hw EXCEPT ![w].pc = "metrics"]
    /\ UNCHANGED <<now, cbVars, pool, stratVars, rl, installed, routerVars,
                   retryVars, obsVars>>

\* the handler's last lines, as in WDecide
LDecide(w) ==
    /\ hw[w].pc = "decide"
    /\ IF hw[w].kind = "passOK"
       THEN IF hw[w].m.fail > 0
            THEN inst' = [inst EXCEPT ![hw[w].b] =
                             Saturated(RecordHealthCheckSuccess(@))]
            ELSE UNCHANGED inst
       ELSE LET s == Decision(hw[w].kind, hw[w].m, hw[w].st) IN
            IF s # ""
            THEN inst' = [inst EXCEPT ![hw[w].b] = SetState(@, s)]
            ELSE UNCHANGED inst
    /\ hw' = [hw EXCEPT ![w] = IdleWorker]
    /\ UNCHANGED <<now, cbVars, pool, stratVars, rl, installed, routerVars,
                   retryVars, obsVars>>

InitLive ==
    /\ now = 0
    /\ CBIdle
    /\ SelectIdle
    /\ \E s1, s2 \in HealthStates :
          inst = <<SetState(NewBackend("a"), s1),
                   SetState(NewBackend("b"), s2)>>
    /\ pool = <<1, 2>>
    /\ installed = pool
    /\ hw = [w \in Live |-> IdleWorker]
    /\ rl = IdleReload
    /\ RouterIdle
    /\ RetryIdle
    /\ ObsIdle

\* the steps a handler takes once its outcome is known
LRun(w) == LRecord(w) \/ WReadMetrics(w) \/ WReadState(w) \/ LDecide(w)

NextLive ==
    \/ \E w \in Probed : LCheck(w) \/ LGet(w) \/ LRun(w)
    \/ \E w \in Reporters : LReport(w) \/ LRun(w)

SpecLive == InitLive /\ [][NextLive]_vars

\* the ticker fires again and again, a probe returns, and every handler
\* that has started runs to its end; that a request is reported is up to
\* the clients
SpecLiveFair ==
    /\ SpecLive
    /\ \A w \in Probed : WF_vars(LCheck(w) \/ LGet(w) \/ LRun(w))
    /\ \A w \in Reporters : WF_vars(LRun(w))

\* a step of a failed probe of backend i or of a failure reported on it
FailureStep(i) ==
    \E w \in DOMAIN hw :
       /\ hw'[w] # hw[w]
       /\ \/ hw[w].b = i /\ hw[w].pc # "idle" /\ hw[w].kind \in FailKinds
          \/ hw'[w].b = i /\ hw'[w].pc # "idle" /\ hw'[w].kind \in FailKinds

Recovered(i) ==
    /\ GetState(inst[i]) = "HEALTHY"
    /\ i \in Range(GetHealthyBackends)

\* C40: when from some point on every probe of a backend succeeds and no
\* failure is recorded against it, the backend (UNHEALTHY or in any other
\* state at that point) becomes HEALTHY, is in the list GetHealthyBackends
\* returns, and stays so.
C40_RecoveryIsLive ==
    \A i \in Probed : <>[][~FailureStep(i)]_vars => <>[]Recovered(i)

\* a backend that a failure handler still in flight read as UNHEALTHY has
\* been probed with success up to the threshold and is HEALTHY again
C40_Witness ==
    \E i \in Probed, r \in Reporters :
       /\ Recovered(i)
       /\ inst[i].succ = HealthyThreshold
       /\ hw[r].b = i /\ hw[r].kind = "passFail"
       /\ hw[r].pc = "decide" /\ hw[r].st = "UNHEALTHY"

\* C1: at most one upstream attempt of a request writes to the client, and
\* when ServeHTTP starts an attempt (at the head of its loop) nothing has
\* been written to the client yet.
C1_NoAttemptAfterWrite ==
    \A r \in Reqs :
       /\ req[r].pc = "loop" => req[r].wrote = <<>>
       /\ Cardinality({i \in DOMAIN req[r].wrote :
                          req[r].wrote[i].by = "proxy"}) <= 1

\* C2: under round-robin over two healthy backends, when the only request
\* made is an uncancelled GET that the first backend answered with 503 and
\* the second with 200, and ServeHTTP has returned, the client observes
\* status 200 and retries_total{server_error} is at least 1.
C2_FailoverSees200 ==
    \A r \in Reqs :
       ( /\ strategy = "rr"
         /\ Len(inst) = 2
         /\ \A r2 \in Reqs \ {r} : req[r2].pc = "new"
         /\ req[r].pc = "done"
         /\ req[r].method = "GET"
         /\ ~req[r].cancelled
         /\ req[r].up = <<503, 200>> )
       => /\ ClientStatus(req[r]) = 200
          /\ retriesTotal.server_error >= 1

\* C3: a request that has finished (returned, or unwound by a panic in the
\* forwarding call) has made as many DecrementActiveRequests calls as
\* IncrementActiveRequests calls, and when no request is in flight every
\* backend's active count is 0.
C3_ActiveBalanced ==
    /\ \A r \in Reqs : Finished(req[r]) => req[r].incs = req[r].decs
    /\ (\A r \in Reqs : Finished(req[r]) \/ req[r].pc = "new")
          => \A i \in 1..Len(inst) : GetActiveRequests(inst[i]) = 0

\* C8: the active count of every backend object, in the pool or replaced,
\* is never negative.
C8_ActiveNonNegative ==
    \A i \in 1..Len(inst) : GetActiveRequests(inst[i]) >= 0

\* a request has just decremented the count of a backend that a reload
\* replaced while the request was in flight, and another is being forwarded
C8_Witness ==
    \E r, r2 \in Reqs :
       /\ req[r].pc = "record"
       /\ req[r].b \notin Range(pool)
       /\ GetActiveRequests(inst[req[r].b]) = 0
       /\ req[r2].pc = "forward"

\* ------------------------------- SpecBackend: the methods of one Backend
BSetState == \E s \in HealthStates :
    /\ inst' = [inst EXCEPT ![1] = SetState(@, s)]
    /\ UNCHANGED <<now, cbVars, pool, stratVars, healthVars, retryVars,
                   routerVars, obsVars>>

BSetAlive == \E v \in BOOLEAN :
    /\ inst' = [inst EXCEPT ![1] = SetAlive(@, v)]
    /\ UNCHANGED <<now, cbVars, pool, stratVars, healthVars, retryVars,
                   routerVars, obsVars>>

BRecordSuccess ==
    /\ inst[1].succ < MaxCount
    /\ inst' = [inst EXCEPT ![1] = RecordHealthCheckSuccess(@)]
    /\ UNCHANGED <<now, cbVars, pool, stratVars, healthVars, retryVars,
                   routerVars, obsVars>>

BRecordFailure ==
    /\ inst[1].fail < MaxCount
    /\ inst' = [inst EXCEPT ![1] = RecordHealthCheckFailure(@)]
    /\ UNCHANGED <<now, cbVars, pool, stratVars, healthVars, retryVars,
                   routerVars, obsVars>>

BSetWeight == \E w \in Weights :
    /\ inst' = [inst EXCEPT ![1] = SetWeight(@, w)]
    /\ UNCHANGED <<now, cbVars, pool, stratVars, healthVars, retryVars,
                   routerVars, obsVars>>

InitBackend ==
    /\ now = 0
    /\ CBIdle
    /\ inst = <<NewBackend("a")>>
    /\ pool = <<1>>
    /\ SelectIdle
    /\ HealthIdle
    /\ RetryIdle
    /\ ObsIdle
    /\ RouterIdle

NextBackend ==
    BSetState \/ BSetAlive \/ BRecordSuccess \/ BRecordFailure \/ BSetWeight

SpecBackend == InitBackend /\ [][NextBackend]_vars

\* C7: in every reachable state of a backend its alive flag is true iff its
\* state is HEALTHY.
C7_AliveIffHealthy ==
    \A i \in 1..Len(inst) : inst[i].alive <=> (inst[i].state = "HEALTHY")

\* ---------------------------------------------- SpecCB: one breaker, a clock
CBKey == "a"

Tick ==
    /\ \E d \in ClockSteps : now + d <= MaxTime /\ now' = now + d
    /\ UNCHANGED <<cbVars, poolVars, stratVars, healthVars, retryVars,
                   routerVars, obsVars>>

CBAllowRequest ==
    LET r == AllowRequest(cbs[CBKey], now) IN
    /\ cbs' = [cbs EXCEPT ![CBKey] = r.cb]
    /\ cbRet' = r.ok
    /\ hoSucc' = IF cbs[CBKey].state # "HALF_OPEN" /\ r.cb.state = "HALF_OPEN"
                 THEN 0 ELSE hoSucc
    /\ UNCHANGED <<now, failLog, poolVars, stratVars, healthVars, retryVars,
                   routerVars, obsVars>>

CBRecordSuccess ==
    /\ cbs[CBKey].successes < MaxSuccesses
    /\ cbs' = [cbs EXCEPT ![CBKey] = RecordSuccess(@, now)]
    /\ hoSucc' = IF cbs[CBKey].state = "HALF_OPEN" THEN hoSucc + 1 ELSE hoSucc
    /\ UNCHANGED <<now, cbRet, failLog, poolVars, stratVars, healthVars,
                   retryVars, routerVars, obsVars>>

CBRecordFailure ==
    /\ Len(failLog) < MaxFailures
    /\ cbs' = [cbs EXCEPT ![CBKey] = RecordFailure(@, now)]
    /\ failLog' = Append(failLog, now)
    /\ UNCHANGED <<now, cbRet, hoSucc, poolVars, stratVars, healthVars,
                   retryVars, routerVars, obsVars>>

InitCB ==
    /\ now = 0
    /\ cbs = (CBKey :> NewCircuitBreaker)
    /\ cbRet = TRUE
    /\ failLog = <<>>
    /\ hoSucc = 0
    /\ PoolIdle
    /\ SelectIdle
    /\ HealthIdle
    /\ RetryIdle
    /\ ObsIdle
    /\ RouterIdle

NextCB == Tick \/ CBAllowRequest \/ CBRecordSuccess \/ CBRecordFailure

SpecCB == InitCB /\ [][NextCB]_vars

\* the clock runs, and requests keep asking the breaker for admission
SpecCBFair == SpecCB /\ WF_vars(Tick) /\ WF_vars(CBAllowRequest)

\* ---- what the log of RecordFailure calls says, whatever the breaker keeps
LastFailure == failLog[Len(failLog)]
FailuresWithin(log, tnow) ==
    Cardinality({i \in 1..Len(log) : tnow - log[i] < CBWindowSize})

\* C9: a CLOSED breaker opens on a recorded failure exactly when at least
\* failure_threshold = 5 of the failures recorded so far, this one included,
\* are less than W = 10 s old (older ones never count, fewer leave it
\* CLOSED); and an OPEN breaker whose last failure is less than the cooldown
\* old refuses admission.
C9_OpensAtThresholdInWindow ==
    [][ /\ (CBRecordFailure /\ cbs[CBKey].state = "CLOSED") =>
             cbs'[CBKey].state =
                 IF FailuresWithin(failLog', now) >= CBFailureThreshold
                 THEN "OPEN" ELSE "CLOSED"
        /\ (CBAllowRequest /\ cbs[CBKey].state = "OPEN"
                            /\ now - LastFailure < CBTimeout) =>
             cbRet' = FALSE
      ]_vars

\* five failures at one instant open the breaker although an older sixth
\* one lies outside the window, and the open breaker has refused a request
C9_Witness ==
    /\ cbs[CBKey].state = "OPEN"
    /\ cbRet = FALSE
    /\ Len(failLog) = CBFailureThreshold + 1
    /\ failLog[1] + CBWindowSize <= failLog[2]
    /\ failLog[2] = LastFailure

\* C10: an OPEN breaker asked for admission less than cooldown = 30 s after
\* the last recorded failure answers false and stays OPEN; asked at or after
\* that point it answers true and becomes HALF_OPEN with a success count of
\* 0; and with the clock running and requests arriving an OPEN breaker does
\* not stay OPEN for good (unless its last failure is so late that the
\* cooldown ends after the modelled time).
C10_CooldownThenHalfOpen ==
    /\ [][ (CBAllowRequest /\ cbs[CBKey].state = "OPEN") =>
               IF now - LastFailure < CBTimeout
               THEN cbRet' = FALSE /\ cbs'[CBKey].state = "OPEN"
               ELSE /\ cbRet' = TRUE
                    /\ cbs'[CBKey].state = "HALF_OPEN"
                    /\ cbs'[CBKey].successes = 0
          ]_vars
    /\ (cbs[CBKey].state = "OPEN") ~>
           (cbs[CBKey].state # "OPEN" \/ LastFailure + CBTimeout > MaxTime)

\* the admission that ends the cooldown, taken exactly 30 s after the failure
C10_Witness ==
    /\ cbs[CBKey].state = "HALF_OPEN"
    /\ cbRet = TRUE
    /\ cbs[CBKey].successes = 0
    /\ now - LastFailure = CBTimeout

\* C11: a HALF_OPEN breaker admits every request; a success recorded in
\* HALF_OPEN closes the breaker, with an empty failure window, exactly when
\* it is the 2nd success recorded since HALF_OPEN was entered (a failure
\* in between leaves HALF_OPEN), and otherwise leaves it HALF_OPEN; a failure
\* recorded in HALF_OPEN opens it and resets the success count to 0; and
\* HALF_OPEN is left for CLOSED in no other way.
C11_HalfOpenTrial ==
    [][ LET c == cbs[CBKey]
            d == cbs'[CBKey] IN
        c.state = "HALF_OPEN" =>
          /\ CBAllowRequest => cbRet' = TRUE /\ d.state = "HALF_OPEN"
          /\ CBRecordSuccess =>
                IF hoSucc + 1 >= CBSuccessThreshold
                THEN d.state = "CLOSED" /\ d.recentFailures = <<>>
                ELSE d.state = "HALF_OPEN"
          /\ CBRecordFailure => d.state = "OPEN" /\ d.successes = 0
          /\ d.state = "CLOSED" =>
                CBRecordSuccess /\ hoSucc' >= CBSuccessThreshold ]_vars

\* the breaker has opened, and two successes in HALF_OPEN have closed it
C11_Witness ==
    /\ cbs[CBKey].state = "CLOSED"
    /\ Len(failLog) >= CBFailureThreshold
    /\ hoSucc = CBSuccessThreshold
    /\ cbs[CBKey].recentFailures = <<>>

====
